---- MODULE Spec2Model ----
(***************************************************************************)
(* Reliable job queue, run lifecycle and job handlers of CourseCrafter     *)
(* (src/app/jobs/tasks.py), with the producers of                          *)
(* src/app/generation/routes.py.                                           *)
(*                                                                         *)
(* pending / processing are the two Redis lists; LPUSH adds at the head    *)
(* (index 1) and BRPOPLPUSH takes the tail of pending and pushes it on     *)
(* the head of processing.  runs is the generation_runs table as seen by   *)
(* other sessions (committed rows only); flushed holds the rows a producer *)
(* has flushed but not yet committed.                                      *)
(***************************************************************************)
EXTENDS Integers, Sequences, FiniteSets, TLC

\* ---------------------------------------------------------------- bounds
NumWorkers == 2
MaxJobs == 2
MaxCrashes == 1
MaxWeeks == 2
SoloWorkers == 1
SoloJobs == 1
ContentWeeks == 3
MaxTextLen == 5
MaxDuration == 5
MaxOutcomes == 7
MaxItems == 4
MaxFaults == 2

\* ------------------------------------------------------ program constants
MAX_RETRIES == 3
None == 0

Workers == 1..NumWorkers
TaskIds == 1..MaxJobs
RunIds == 1..MaxJobs
User == 1

OUTLINE == "generate_roadmap_outline"
MODULES == "generate_course_modules"
UNKNOWN == "unknown_job_type"

VARIABLES
    pending,      \* Redis list PENDING_Q
    processing,   \* Redis list PROCESSING_Q
    runs,         \* committed GenerationRun rows: run id -> record
    flushed,      \* GenerationRun rows flushed by a producer, not yet committed
    courses,      \* Course rows: course id -> record
    modules,      \* CourseModule rows: course id -> sequence of content_md, by week
    roadmaps,     \* ids of the Roadmap rows
    wk,           \* per worker: position in process_roadmap_generation_queue + locals
    next_task,    \* number of task ids handed out by enqueue_job
    crashes,      \* number of worker crashes so far
    lim,          \* the scenario: how many workers run, how many jobs are submitted,
                  \* whether hist.snap is recorded, how many calls to Redis or
                  \* to the database are still going to fail
    fx,           \* one call of a validator / of the JSON extraction: input, result
    eng,          \* one invocation of a generation engine (outline or module text)
    hist          \* observations: enq (tasks enqueued), delivered / raised (per
                  \* task: dequeues, handler exceptions), marked (tasks whose run
                  \* was committed at their first pick-up), acked, dead, snap (per
                  \* worker: the module contents its content handler started on)

vars == <<pending, processing, runs, flushed, courses, modules, roadmaps, wk,
          next_task, crashes, lim, fx, eng, hist>>

\* ------------------------------------------------------------ data shapes
\* What json.dumps makes of a task_data dict: the fields of the record are
\* its content
JSON_OBJECT == "{...}"

NoTask == [task_id |-> None, type |-> "", run_id |-> None, course_id |-> None,
           overwrite |-> FALSE, attempt |-> 0, timestamp |-> None, text |-> JSON_OBJECT]

\* A list entry that enqueue_job did not write: the empty string, text that
\* is no JSON, JSON that is no object. Such an entry has no fields; task_id
\* only tells the entries apart in the model
ForeignTexts == {"", "oops", "[]"}
Foreign(task_id, text) == [NoTask EXCEPT !.task_id = task_id, !.text = text]

\* Lines 337, 381: `if not task_raw`
NoMessage(task) == task.text = ""

\* Lines 341, 385: json.loads(task_raw) raises
JsonLoadsRaises(task) == task.text \notin {JSON_OBJECT, "[]"}

\* Lines 342, 390: task.get raises AttributeError, a list has no get
GetRaises(task) == task.text = "[]"

\* enqueue_job's task_data; the timestamp is the time of the call, counted in
\* calls of enqueue_job, which is also what numbers the task ids
TaskData(task_id, job_type, run_id, course_id, overwrite) ==
    [task_id |-> task_id, type |-> job_type, run_id |-> run_id,
     course_id |-> course_id, overwrite |-> overwrite, attempt |-> 0,
     timestamp |-> task_id, text |-> JSON_OBJECT]

\* The row start_generation / start_course_modules_generation add
NewRun(user_id, roadmap_id, course_id) ==
    [user_id |-> user_id, roadmap_id |-> roadmap_id, course_id |-> course_id,
     status |-> "queued", progress |-> 0, error |-> "", result_json |-> FALSE,
     started_at |-> FALSE, finished_at |-> FALSE]

\* No validator call / no engine invocation under way
NoCall == [fn |-> "", done |-> TRUE]
NoEngine == [engine |-> "", pc |-> "off"]

\* A call that has not returned yet
Call(fn, arg, duration) ==
    [fn |-> fn, arg |-> arg, duration |-> duration, res |-> "", done |-> FALSE]

IdleWorker == [pc |-> "idle", task |-> NoTask, course |-> None, idx |-> 0,
               written |-> 0, skipped |-> 0, ret |-> ""]

SeqToSet(s) == {s[i] : i \in 1..Len(s)}

\* Faulty variant: LREM removes nothing
LRem_Keeps(list, value) == list

\* LREM key 1 value: removes the first element equal to value
LRem(list, value) ==
    IF \E i \in 1..Len(list) : list[i] = value
    THEN LET i == CHOOSE i \in 1..Len(list) :
                      list[i] = value /\ \A j \in 1..(i-1) : list[j] # value
         IN SubSeq(list, 1, i-1) \o SubSeq(list, i+1, Len(list))
    ELSE list

\* Faulty variant: the value is pushed twice
LPush_Twice(list, value) == <<value, value>> \o list

\* LPUSH key value
LPush(list, value) == <<value>> \o list
Front(list) == SubSeq(list, 1, Len(list) - 1)
Last(list) == list[Len(list)]

Terminal == {"succeeded", "failed"}

\* ------------------------------------------------------------- update_run
\* Faulty variant: a call that passes no progress resets it
ApplyUpdate_ResetsProgress(run, upd) ==
    [f \in DOMAIN run |-> IF f \in DOMAIN upd THEN upd[f]
                          ELSE IF f = "progress" THEN 0 ELSE run[f]]

\* Only the fields passed are applied; started / finished set the timestamps.
\* A run id that is None or names no committed row leaves the table as it is.
ApplyUpdate(run, upd) ==
    [f \in DOMAIN run |-> IF f \in DOMAIN upd THEN upd[f] ELSE run[f]]

update_run(rs, run_id, upd) ==
    IF run_id \notin DOMAIN rs THEN rs
    ELSE [rs EXCEPT ![run_id] = ApplyUpdate(@, upd)]

\* Lines 87-95, 108-122: the keyword arguments of a call (an argument is <<>>
\* when it is None, <<v>> when it is v) as the fields the call assigns;
\* started / finished assign the time of the call
Passed(args, now) ==
    LET fields == {f \in {"status", "progress", "message", "error", "result_json"} :
                      args[f] # <<>>}
        stamps == (IF args.started THEN {"started_at"} ELSE {})
                  \cup (IF args.finished THEN {"finished_at"} ELSE {})
    IN [f \in fields \cup stamps |-> IF f \in stamps THEN now ELSE args[f][1]]

\* The fields of the worker's first write for a dequeued job
PickedUp == [status |-> "running", progress |-> 1, started_at |-> TRUE]

\* Faulty variant: the error is recorded, the status is left as it was
Failed_ErrorOnly(error) == [error |-> error, finished_at |-> TRUE]

\* The handler's failure write (except branches and the not-found returns)
Failed(error) == [status |-> "failed", error |-> error, finished_at |-> TRUE]

\* Faulty variant: the success write leaves the progress where it was
Succeeded_StatusOnly == [status |-> "succeeded", finished_at |-> TRUE]

\* The handlers' success write (tasks.py:203-208, 309-315)
Succeeded == [status |-> "succeeded", progress |-> 100, finished_at |-> TRUE]

\* Faulty variant: the handler forgets to skip a run that is already running
OutlineSkips_TerminalOnly(status) == status \in {"succeeded", "failed"}

\* generate_roadmap_outline_sync: the statuses on which it returns skipped
OutlineSkips(status) == status \in {"succeeded", "failed", "running"}

\* Faulty variant: off by one, a fourth requeue is allowed
ShouldRequeue_OneMore(attempt) == attempt <= MAX_RETRIES + 1

\* Worker loop: requeue while the incremented attempt is within MAX_RETRIES
ShouldRequeue(attempt) == attempt <= MAX_RETRIES

\* Faulty variant: the dead-letter path records the error but not the status
RetriesExhausted_NoStatus == [error |-> "Retries exhausted", finished_at |-> TRUE]

\* The worker's write when the retries are exhausted
RetriesExhausted == Failed("Retries exhausted")

\* Faulty variant: the task is copied to processing and left in pending
BRPopLPushSource_Copy(list) == list

\* BRPOPLPUSH: what is left of the source list once its tail has been moved
BRPopLPushSource(list) == Front(list)

\* int(5 + done * (90 / max(total, 1))), exact for the totals of the model
ModuleProgress(done, total) ==
    5 + (done * 90) \div (IF total > 1 THEN total ELSE 1)

Set(w, rec) == [wk EXCEPT ![w] = rec]
Goto(w, pc) == [wk EXCEPT ![w].pc = pc]

\* ------------------------------------------------------------------ texts
\* A text is a sequence of characters (one-character strings); in a line of
\* markdown the words of a heading are single elements.
IsSpace(ch) == ch = " "
IsDigit(ch) == ch \in {"0", "1", "2", "3", "4", "5", "6", "7", "8", "9"}

RECURSIVE LStrip(_)
LStrip(s) == IF s # <<>> /\ IsSpace(Head(s)) THEN LStrip(Tail(s)) ELSE s

RECURSIVE RStrip(_)
RStrip(s) == IF s # <<>> /\ IsSpace(Last(s)) THEN RStrip(Front(s)) ELSE s

\* str.strip()
Strip(s) == RStrip(LStrip(s))

\* str.startswith(prefix)
StartsWith(s, prefix) ==
    /\ Len(s) >= Len(prefix)
    /\ SubSeq(s, 1, Len(prefix)) = prefix

\* str.find(ch): the first index of ch, 0 (Python: -1) when there is none
Find(text, ch) ==
    IF \E i \in 1..Len(text) : text[i] = ch
    THEN CHOOSE i \in 1..Len(text) :
             text[i] = ch /\ \A j \in 1..(i - 1) : text[j] # ch
    ELSE 0

\* str | None
Nothing == [none |-> TRUE, text |-> <<>>]
Some(text) == [none |-> FALSE, text |-> text]

\* ------------------------------------- workflow._extract_first_json_object
\* Faulty variant: opening braces are not counted
BraceDelta_ClosingOnly(ch) == IF ch = "}" THEN -1 ELSE 0

\* Lines 49-52: the change of brace_count on one character
BraceDelta(ch) == IF ch = "{" THEN 1 ELSE IF ch = "}" THEN -1 ELSE 0

\* Lines 48-56: the loop from position i on, with the count so far
RECURSIVE ScanBraces(_, _, _, _)
ScanBraces(text, start, i, brace_count) ==
    IF i > Len(text) THEN Nothing
    ELSE LET count == brace_count + BraceDelta(text[i]) IN
         IF text[i] = "}" /\ count = 0
         THEN Some(SubSeq(text, start, i))
         ELSE ScanBraces(text, start, i + 1, count)

extract_first_json_object(text) ==
    LET start == Find(text, "{") IN
    IF start = 0 THEN Nothing ELSE ScanBraces(text, start, start, 0)

\* ------------------------------------------- workflow._validate_outline
\* not s or not s.strip()
Blank(s) == s = <<>> \/ Strip(s) = <<>>

\* Faulty variant: the schema's limit of 8 outcomes is applied
OutcomesCountOk_Schema(n) == n >= 2 /\ n <= 8

\* Line 72: 2 to 6 outcomes
OutcomesCountOk(n) == ~(n < 2 \/ n > 6)

\* Lines 69-76: the checks on the weeks from position k on
RECURSIVE CheckWeeks(_, _)
CheckWeeks(weeks, k) ==
    IF k > Len(weeks) THEN "ok"
    ELSE IF Blank(weeks[k].title) THEN "title is empty"
    ELSE IF ~OutcomesCountOk(Len(weeks[k].outcomes)) THEN "must have 2-6 outcomes"
    ELSE IF \E i \in 1..Len(weeks[k].outcomes) : Blank(weeks[k].outcomes[i])
         THEN "has empty outcome"
    ELSE CheckWeeks(weeks, k + 1)

\* The error raised (ValueError), "ok" when the function returns
validate_outline(outline, duration_weeks) ==
    LET nums == [i \in 1..Len(outline.weeks) |-> outline.weeks[i].week] IN
    IF Len(outline.weeks) # duration_weeks THEN "Expected weeks"
    ELSE IF nums # [i \in 1..duration_weeks |-> i]
         THEN "Week numbers must be exactly 1..N in order"
    ELSE CheckWeeks(outline.weeks, 1)

\* schemas.py: the constraints pydantic checks when the JSON is parsed
RoadmapOutlineSchema(outline) ==
    /\ Len(outline.weeks) >= 4 /\ Len(outline.weeks) <= 52
    /\ \A i \in 1..Len(outline.weeks) :
          LET w == outline.weeks[i] IN
          /\ w.week >= 1 /\ w.week <= 52
          /\ Len(w.title) >= 3 /\ Len(w.title) <= 100
          /\ Len(w.outcomes) >= 2 /\ Len(w.outcomes) <= 8

\* Lines 91-92 / 101-102: RoadmapOutline.model_validate_json, _validate_outline
OutlineError(outline, duration_weeks) ==
    IF ~RoadmapOutlineSchema(outline) THEN "ValidationError"
    ELSE validate_outline(outline, duration_weeks)

\* ------------------------------- module_writer.validate_module_markdown
H2(words) == <<"#", "#", " ", words>>

required_headings ==
    <<H2("Overview"), H2("Key concepts"), H2("Worked example"),
      H2("Practice exercises"), H2("Common mistakes"), H2("Suggested resources")>>

\* Lines 67-74: the loop over the lines from position i on
RECURSIVE ScanLines(_, _, _, _, _)
ScanLines(lines, i, found_headings, practice_exercises_content, in_practice_section) ==
    IF i > Len(lines)
    THEN [found_headings |-> found_headings,
          practice_exercises_content |-> practice_exercises_content]
    ELSE LET line == Strip(lines[i]) IN
         IF StartsWith(line, <<"#", "#", " ">>)
         THEN ScanLines(lines, i + 1, Append(found_headings, line),
                        practice_exercises_content, line = H2("Practice exercises"))
         ELSE IF in_practice_section /\ line # <<>>
                   /\ (IsDigit(line[1]) \/ StartsWith(line, <<"-">>))
         THEN ScanLines(lines, i + 1, found_headings,
                        Append(practice_exercises_content, line), in_practice_section)
         ELSE ScanLines(lines, i + 1, found_headings, practice_exercises_content,
                        in_practice_section)

IsNumbered(line) == line # <<>> /\ IsDigit(line[1])

\* The error raised (ValueError) with what it reports; error "" when the
\* function returns
validate_module_markdown(md) ==
    LET scan == ScanLines(md, 1, <<>>, <<>>, FALSE)
        found == scan.found_headings
        numbered_items == SelectSeq(scan.practice_exercises_content, IsNumbered)
    IN IF found # required_headings
       THEN [error |-> "Invalid headings structure",
             missing |-> SeqToSet(required_headings) \ SeqToSet(found),
             extra |-> SeqToSet(found) \ SeqToSet(required_headings),
             found |-> 0]
       ELSE IF Len(numbered_items) # 3
       THEN [error |-> "Practice exercises must have exactly 3 numbered items",
             missing |-> {}, extra |-> {}, found |-> Len(numbered_items)]
       ELSE [error |-> "", missing |-> {}, extra |-> {}, found |-> 3]

\* Lines 99, 119: .strip() of the generated text, here a sequence of lines:
\* blank lines at both ends go, as do the spaces before the first and after
\* the last character
RECURSIVE DropBlankHead(_)
DropBlankHead(lines) ==
    IF lines # <<>> /\ Strip(Head(lines)) = <<>> THEN DropBlankHead(Tail(lines))
    ELSE lines

RECURSIVE DropBlankTail(_)
DropBlankTail(lines) ==
    IF lines # <<>> /\ Strip(Last(lines)) = <<>> THEN DropBlankTail(Front(lines))
    ELSE lines

StripText(lines) ==
    LET kept == DropBlankTail(DropBlankHead(lines)) IN
    IF kept = <<>> THEN kept
    ELSE [[kept EXCEPT ![1] = LStrip(@)] EXCEPT ![Len(kept)] = RStrip(@)]

\* ------------------------------------------------------------------- Init
StartWith(contents) ==
    /\ pending = <<>>
    /\ processing = <<>>
    /\ runs = <<>>
    /\ flushed = <<>>
    /\ roadmaps = (1 :> [user_id |-> User, duration_weeks |-> MaxWeeks])
    /\ courses = (1 :> [user_id |-> User, roadmap_id |-> 1, status |-> "ready"])
    /\ modules = (1 :> contents)
    /\ wk = [w \in Workers |-> IdleWorker]
    /\ next_task = 1
    /\ crashes = 0
    /\ hist = [enq |-> <<>>,
               delivered |-> [t \in TaskIds |-> 0],
               raised |-> [t \in TaskIds |-> 0],
               marked |-> {},
               acked |-> {},
               dead |-> {},
               snap |-> [w \in Workers |-> <<>>]]

\* Course 1 with content in its first module only
Start == StartWith([i \in 1..MaxWeeks |-> IF i = 1 THEN "seed" ELSE "none"])

\* No validator call and no engine invocation is under way
Quiet ==
    /\ fx = NoCall
    /\ eng = NoEngine

\* Two workers and two jobs, workers may crash
Init ==
    /\ Start
    /\ Quiet
    /\ lim = [workers |-> NumWorkers, jobs |-> MaxJobs, observe |-> FALSE, faults |-> 0]

\* One worker and one job
InitSolo ==
    /\ Start
    /\ Quiet
    /\ lim = [workers |-> SoloWorkers, jobs |-> SoloJobs, observe |-> FALSE, faults |-> 0]

\* One worker and one job on course 1, whose modules have content or not
InitContent ==
    /\ \E contents \in [1..ContentWeeks -> {"seed", "none"}] : StartWith(contents)
    /\ Quiet
    /\ lim = [workers |-> SoloWorkers, jobs |-> SoloJobs, observe |-> TRUE, faults |-> 0]

\* -------------------------------------------------------------- producers
\* enqueue_job: LPUSH of a fresh task with attempt 0
enqueue_job(job_type, run_id, course_id, overwrite) ==
    /\ next_task <= lim.jobs
    /\ pending' = LPush(pending, TaskData(next_task, job_type, run_id, course_id, overwrite))
    /\ next_task' = next_task + 1
    /\ hist' = [hist EXCEPT !.enq = Append(@, TaskData(next_task, job_type, run_id,
                                                       course_id, overwrite))]

\* start_generation up to queue_roadmap_generation: the run is flushed, the
\* job is pushed; the commit is CommitRun
StartGeneration ==
    /\ \E rm \in DOMAIN roadmaps :
          /\ roadmaps[rm].user_id = User
          /\ enqueue_job(OUTLINE, next_task, None, FALSE)
          /\ flushed' = flushed @@ (next_task :> NewRun(User, rm, None))
    /\ UNCHANGED <<lim, fx, eng, processing, runs, courses, modules, roadmaps, wk, crashes>>

\* start_course_modules_generation up to enqueue_job
StartCourseModulesGeneration ==
    /\ \E c \in DOMAIN courses, overwrite \in BOOLEAN :
          /\ courses[c].user_id = User
          /\ enqueue_job(MODULES, next_task, c, overwrite)
          /\ flushed' = flushed @@ (next_task :> NewRun(User, courses[c].roadmap_id, c))
    /\ UNCHANGED <<lim, fx, eng, processing, runs, courses, modules, roadmaps, wk, crashes>>

\* db.commit() of either route: the queued row becomes visible to the workers
CommitRun ==
    /\ \E r \in DOMAIN flushed :
          /\ runs' = runs @@ (r :> flushed[r])
          /\ flushed' = [x \in DOMAIN flushed \ {r} |-> flushed[x]]
    /\ UNCHANGED <<lim, fx, eng, pending, processing, courses, modules, roadmaps, wk, next_task,
                   crashes, hist>>

\* enqueue_job called directly for a run that already exists (a second job
\* for the run), with a job type the worker does not know, or without run id
EnqueueJob ==
    /\ \E job_type \in {OUTLINE, MODULES, UNKNOWN},
          run_id \in DOMAIN runs \cup {None},
          course_id \in DOMAIN courses \cup {None} :
          enqueue_job(job_type, run_id, course_id, FALSE)
    /\ UNCHANGED <<lim, fx, eng, processing, runs, flushed, courses, modules, roadmaps, wk,
                   crashes>>

\* Another client of the Redis server pushes an entry of its own onto the
\* pending list
ForeignPush ==
    /\ next_task <= lim.jobs
    /\ \E text \in ForeignTexts :
          /\ pending' = LPush(pending, Foreign(next_task, text))
          /\ hist' = [hist EXCEPT !.enq = Append(@, Foreign(next_task, text))]
    /\ next_task' = next_task + 1
    /\ UNCHANGED <<lim, fx, eng, processing, runs, flushed, courses, modules, roadmaps, wk,
                   crashes>>

\* ------------------------------------------------------------ worker loop
\* redis_client.brpoplpush(PENDING_Q, PROCESSING_Q): one atomic move
Dequeue(w) ==
    /\ w <= lim.workers
    /\ wk[w].pc = "idle"
    /\ pending # <<>>
    /\ LET task == Last(pending) IN
          /\ pending' = BRPopLPushSource(pending)
          /\ processing' = LPush(processing, task)
          /\ wk' = Set(w, [IdleWorker EXCEPT !.pc = "picked", !.task = task])
          /\ hist' = [hist EXCEPT !.delivered[task.task_id] = @ + 1]
    /\ UNCHANGED <<lim, fx, eng, runs, flushed, courses, modules, roadmaps, next_task, crashes>>

\* Lines 337-358: an empty task_raw is taken for a timeout and the loop goes
\* on; a task_raw that does not parse, or parses to no object, raises; a
\* task without run id is removed from processing; else the run is flipped
\* to running with progress 1, whatever its status was
MarkRunning(w) ==
    /\ wk[w].pc = "picked"
    /\ LET task == wk[w].task IN
          IF NoMessage(task)
          THEN /\ wk' = Set(w, IdleWorker)
               /\ UNCHANGED <<processing, runs, hist>>
          ELSE IF JsonLoadsRaises(task) \/ GetRaises(task)
          THEN /\ wk' = Goto(w, "except")
               /\ UNCHANGED <<processing, runs, hist>>
          ELSE IF task.run_id = None
          THEN /\ processing' = LRem(processing, task)
               /\ wk' = Set(w, IdleWorker)
               /\ hist' = [hist EXCEPT !.acked = @ \cup {task.task_id}]
               /\ UNCHANGED runs
          ELSE /\ runs' = update_run(runs, task.run_id, PickedUp)
               /\ wk' = Goto(w, "dispatch")
               /\ hist' = IF task.run_id \in DOMAIN runs /\ task.attempt = 0
                          THEN [hist EXCEPT !.marked = @ \cup {task.task_id}]
                          ELSE hist
               /\ UNCHANGED processing
    /\ UNCHANGED <<lim, fx, eng, pending, flushed, courses, modules, roadmaps, next_task, crashes>>

\* Lines 360-372: dispatch on the job type
Dispatch(w) ==
    /\ wk[w].pc = "dispatch"
    /\ LET task == wk[w].task IN
          CASE task.type = OUTLINE ->
                  /\ wk' = Goto(w, "o_start")
                  /\ UNCHANGED runs
            [] task.type = MODULES /\ task.course_id = None ->
                  /\ runs' = update_run(runs, task.run_id,
                                        Failed("course_id missing in job payload"))
                  /\ wk' = Goto(w, "ack")
            [] task.type = MODULES /\ task.course_id # None ->
                  /\ wk' = Goto(w, "c_start")
                  /\ UNCHANGED runs
            [] OTHER ->
                  /\ runs' = update_run(runs, task.run_id,
                                        Failed("Unknown job type: " \o task.type))
                  /\ wk' = Goto(w, "ack")
    /\ UNCHANGED <<lim, fx, eng, pending, processing, flushed, courses, modules, roadmaps,
                   next_task, crashes, hist>>

\* Line 375: acknowledge, LREM of the task from processing
Ack(w) ==
    /\ wk[w].pc = "ack"
    /\ processing' = LRem(processing, wk[w].task)
    /\ wk' = Set(w, IdleWorker)
    /\ hist' = [hist EXCEPT !.acked = @ \cup {wk[w].task.task_id}]
    /\ UNCHANGED <<lim, fx, eng, pending, runs, flushed, courses, modules, roadmaps, next_task,
                   crashes>>

\* Lines 377-400: a task_raw that does not parse is removed from processing;
\* one that parses to no object raises again, outside any try, and ends the
\* loop; else the handler raised: the attempt is incremented and the run is
\* written back to running with the retry message
Except(w) ==
    /\ wk[w].pc = "except"
    /\ LET task == wk[w].task IN
          IF JsonLoadsRaises(task)
          THEN /\ processing' = LRem(processing, task)
               /\ wk' = Set(w, IdleWorker)
               /\ hist' = [hist EXCEPT !.acked = @ \cup {task.task_id}]
               /\ UNCHANGED runs
          ELSE IF GetRaises(task)
          THEN /\ wk' = Set(w, [IdleWorker EXCEPT !.pc = "terminated"])
               /\ UNCHANGED <<processing, runs, hist>>
          ELSE /\ runs' = update_run(runs, task.run_id, [status |-> "running"])
               /\ wk' = Goto(w, IF ShouldRequeue(task.attempt + 1) THEN "requeue_lrem"
                                                                   ELSE "exhausted")
               /\ hist' = [hist EXCEPT !.raised[task.task_id] = @ + 1]
               /\ UNCHANGED processing
    /\ UNCHANGED <<lim, fx, eng, pending, flushed, courses, modules, roadmaps,
                   next_task, crashes>>

\* Line 404: LREM of the task as it was dequeued
RequeueLRem(w) ==
    /\ wk[w].pc = "requeue_lrem"
    /\ processing' = LRem(processing, wk[w].task)
    /\ wk' = Goto(w, "requeue_lpush")
    /\ UNCHANGED <<lim, fx, eng, pending, runs, flushed, courses, modules, roadmaps, next_task,
                   crashes, hist>>

\* Faulty variant: the requeued message is stamped anew
Retried_Restamped(task) == [task EXCEPT !.attempt = @ + 1, !.timestamp = @ + 1]

\* Lines 384-392, 405: the message parsed from task_raw, with attempt + 1,
\* serialised again
Retried(task) == [task EXCEPT !.attempt = @ + 1]

\* Line 405: LPUSH of the task with the incremented attempt
RequeueLPush(w) ==
    /\ wk[w].pc = "requeue_lpush"
    /\ pending' = LPush(pending, Retried(wk[w].task))
    /\ wk' = Set(w, IdleWorker)
    /\ UNCHANGED <<lim, fx, eng, processing, runs, flushed, courses, modules, roadmaps, next_task,
                   crashes, hist>>

\* Lines 407-414: retries exhausted, the run is marked failed
Exhausted(w) ==
    /\ wk[w].pc = "exhausted"
    /\ runs' = update_run(runs, wk[w].task.run_id, RetriesExhausted)
    /\ wk' = Goto(w, "dead_lrem")
    /\ UNCHANGED <<lim, fx, eng, pending, processing, flushed, courses, modules, roadmaps,
                   next_task, crashes, hist>>

\* Line 415: the dead-lettered task is removed from processing
DeadLetter(w) ==
    /\ wk[w].pc = "dead_lrem"
    /\ processing' = LRem(processing, wk[w].task)
    /\ wk' = Set(w, IdleWorker)
    /\ hist' = [hist EXCEPT !.acked = @ \cup {wk[w].task.task_id},
                            !.dead = @ \cup {wk[w].task.task_id}]
    /\ UNCHANGED <<lim, fx, eng, pending, runs, flushed, courses, modules, roadmaps, next_task,
                   crashes>>

\* Faulty variant: the dying worker takes its message off the processing list
signal_handler_Removes(list, task) == LRem(list, task)

\* worker.py:15-17: on SIGINT / SIGTERM the worker prints a line and exits;
\* as with a kill, the processing list is left as it is
signal_handler(list, task) == list

\* The worker process dies (signal, kill, power loss) anywhere in an iteration;
\* what it held in memory is gone, the lists and the tables stay as they are
Crash(w) ==
    /\ wk[w].pc \notin {"idle", "crashed", "terminated"}
    /\ crashes < MaxCrashes
    /\ crashes' = crashes + 1
    /\ processing' = signal_handler(processing, wk[w].task)
    /\ wk' = Set(w, [IdleWorker EXCEPT !.pc = "crashed"])
    /\ hist' = [hist EXCEPT !.snap[w] = <<>>]
    /\ UNCHANGED <<lim, fx, eng, pending, runs, flushed, courses, modules,
                   roadmaps, next_task>>

\* ------------------------------------------ generate_roadmap_outline_sync
\* Faulty variant: the checkpoint before the generation is written as 60 and
\* the one after it as 20
Checkpoint_Swapped(step) ==
    CASE step = "o_start" -> 5
      [] step = "o_roadmap" -> 60
      [] step = "o_gen" -> 20
      [] step = "o_save" -> 85

\* Lines 149, 162, 171, 198: run.progress at the commits of the handler
\* before the last one
Checkpoint(step) ==
    CASE step = "o_start" -> 5
      [] step = "o_roadmap" -> 20
      [] step = "o_gen" -> 60
      [] step = "o_save" -> 85

\* Lines 139-152: load the run; return when it is missing, skip when it is
\* terminal or running; else commit running / 5 / started_at
OutlineStart(w) ==
    /\ wk[w].pc = "o_start"
    /\ LET run_id == wk[w].task.run_id IN
          IF run_id \notin DOMAIN runs
          THEN /\ wk' = [wk EXCEPT ![w].pc = "ack", ![w].ret = "run not found"]
               /\ UNCHANGED runs
          ELSE IF OutlineSkips(runs[run_id].status)
          THEN /\ wk' = [wk EXCEPT ![w].pc = "ack", ![w].ret = "skipped"]
               /\ UNCHANGED runs
          ELSE /\ runs' = update_run(runs, run_id,
                            [status |-> "running", progress |-> Checkpoint("o_start"),
                             started_at |-> TRUE])
               /\ wk' = Goto(w, "o_roadmap")
    /\ UNCHANGED <<lim, fx, eng, pending, processing, flushed, courses, modules, roadmaps,
                   next_task, crashes, hist>>

\* Lines 154-164: the roadmap is loaded; progress 20 before the generator call
OutlineRoadmap(w) ==
    /\ wk[w].pc = "o_roadmap"
    /\ LET run_id == wk[w].task.run_id IN
          IF runs[run_id].roadmap_id \notin DOMAIN roadmaps
          THEN /\ runs' = update_run(runs, run_id, Failed("Roadmap not found"))
               /\ wk' = [wk EXCEPT ![w].pc = "ack", ![w].ret = "roadmap not found"]
          ELSE /\ runs' = update_run(runs, run_id, [progress |-> Checkpoint("o_roadmap")])
               /\ wk' = Goto(w, "o_gen")
    /\ UNCHANGED <<lim, fx, eng, pending, processing, flushed, courses, modules, roadmaps,
                   next_task, crashes, hist>>

\* Lines 166-173: generate_roadmap_outline returns a validated outline
\* (progress 60) or raises
OutlineGenerate(w) ==
    /\ wk[w].pc = "o_gen"
    /\ \E ok \in BOOLEAN :
          IF ok
          THEN /\ runs' = update_run(runs, wk[w].task.run_id,
                                     [progress |-> Checkpoint("o_gen")])
               /\ wk' = Goto(w, "o_save")
          ELSE /\ wk' = Goto(w, "o_exc")
               /\ UNCHANGED runs
    /\ UNCHANGED <<lim, fx, eng, pending, processing, flushed, courses, modules, roadmaps,
                   next_task, crashes, hist>>

\* Lines 175-201: one commit adds the course (draft), one module per week with
\* content unset, links the course to the run and stores progress 85 + result
OutlineSave(w) ==
    /\ wk[w].pc = "o_save"
    /\ LET run_id == wk[w].task.run_id
           run == runs[run_id]
           course_id == Cardinality(DOMAIN courses) + 1
           weeks == roadmaps[run.roadmap_id].duration_weeks
       IN /\ courses' = courses @@ (course_id :> [user_id |-> run.user_id,
                                      roadmap_id |-> run.roadmap_id, status |-> "draft"])
          /\ modules' = modules @@ (course_id :> [i \in 1..weeks |-> "none"])
          /\ runs' = update_run(runs, run_id,
                        [course_id |-> course_id, progress |-> Checkpoint("o_save"),
                         result_json |-> TRUE])
          /\ wk' = [wk EXCEPT ![w].pc = "o_done", ![w].course = course_id]
    /\ UNCHANGED <<lim, fx, eng, pending, processing, flushed, roadmaps, next_task, crashes, hist>>

\* Lines 203-210: succeeded / 100 / finished_at, course ready
OutlineDone(w) ==
    /\ wk[w].pc = "o_done"
    /\ runs' = update_run(runs, wk[w].task.run_id, Succeeded)
    /\ courses' = [courses EXCEPT ![wk[w].course].status = "ready"]
    /\ wk' = [wk EXCEPT ![w].pc = "ack", ![w].ret = "ok"]
    /\ UNCHANGED <<lim, fx, eng, pending, processing, flushed, modules, roadmaps, next_task,
                   crashes, hist>>

\* Faulty variant: the handler swallows the exception and returns
Reraise_Swallowed == "ack"

\* Lines 219, 320: raise; the worker loop continues in its except branch
Reraise == "except"

\* Lines 212-219: the except branch marks the run failed and re-raises
OutlineExcept(w) ==
    /\ wk[w].pc = "o_exc"
    /\ runs' = update_run(runs, wk[w].task.run_id, Failed("Exception"))
    /\ wk' = Goto(w, Reraise)
    /\ UNCHANGED <<lim, fx, eng, pending, processing, flushed, courses, modules, roadmaps,
                   next_task, crashes, hist>>

\* ------------------------------------------- generate_course_modules_sync
\* Faulty variant: existing content is never recognised
has_content_Never(content_md) == FALSE

\* bool(m.content_md and m.content_md.strip())
has_content(content_md) == content_md \notin {"none", "blank"}

\* Faulty variant: a missing course, roadmap or module list raises
NotFoundReturn_Raises(ret) == [pc |-> "c_exc", ret |-> ""]

\* Lines 246-263: after the failure write the handler returns {"ok": False,
\* "error": ...}; the worker loop goes on to the acknowledgement
NotFoundReturn(ret) == [pc |-> "ack", ret |-> ret]

\* Faulty variant: the course is looked up by its id alone
OwnedBy_Anyone(course, run) == TRUE

\* Lines 241-245: Course.user_id == run.user_id in the query of the course
OwnedBy(course, run) == course.user_id = run.user_id

\* Lines 237-266: run, course (owned by the run's user), roadmap and modules
\* are loaded; a missing one fails the run; else the course is linked
ModulesStart(w) ==
    /\ wk[w].pc = "c_start"
    /\ LET task == wk[w].task
           c == task.course_id
           fail(error, ret) ==
               /\ runs' = update_run(runs, task.run_id, Failed(error))
               /\ wk' = [wk EXCEPT ![w].pc = NotFoundReturn(ret).pc,
                                   ![w].ret = NotFoundReturn(ret).ret]
               /\ UNCHANGED hist
       IN IF task.run_id \notin DOMAIN runs
          THEN /\ wk' = [wk EXCEPT ![w].pc = "ack", ![w].ret = "run not found"]
               /\ UNCHANGED <<runs, hist>>
          ELSE IF c \notin DOMAIN courses \/ ~OwnedBy(courses[c], runs[task.run_id])
          THEN fail("course not found", "course not found")
          ELSE IF courses[c].roadmap_id \notin DOMAIN roadmaps
          THEN fail("roadmap not found for course", "roadmap not found")
          ELSE IF modules[c] = <<>>
          THEN fail("No modules found", "no modules found")
          ELSE /\ runs' = update_run(runs, task.run_id, [course_id |-> c])
               /\ wk' = [wk EXCEPT ![w].pc = "c_begin", ![w].course = c]
               /\ hist' = IF lim.observe THEN [hist EXCEPT !.snap[w] = modules[c]]
                          ELSE hist
    /\ UNCHANGED <<lim, fx, eng, pending, processing, flushed, courses, modules, roadmaps,
                   next_task, crashes>>

\* Lines 268-278: running / 5 / started_at, counters at 0
ModulesBegin(w) ==
    /\ wk[w].pc = "c_begin"
    /\ runs' = update_run(runs, wk[w].task.run_id,
                  [status |-> "running", progress |-> 5, started_at |-> TRUE])
    /\ wk' = [wk EXCEPT ![w].pc = "c_loop", ![w].idx = 1]
    /\ UNCHANGED <<lim, fx, eng, pending, processing, flushed, courses, modules, roadmaps,
                   next_task, crashes, hist>>

\* Lines 280-293: next module; one with content is skipped unless overwrite,
\* else the progress is written before the generator is called.  Once the
\* course is deleted the handler raises, on the read of a module whose row is
\* gone or, after the last module, on the commit of the course status.
ModulesLoop(w) ==
    /\ wk[w].pc = "c_loop"
    /\ LET task == wk[w].task
           total == Len(modules[wk[w].course])
           done == wk[w].written + wk[w].skipped
       IN IF wk[w].course \notin DOMAIN courses
          THEN /\ wk' = Goto(w, "c_exc")
               /\ UNCHANGED runs
          ELSE IF wk[w].idx > total
          THEN /\ wk' = Goto(w, "c_ready")
               /\ UNCHANGED runs
          ELSE IF has_content(modules[wk[w].course][wk[w].idx]) /\ ~task.overwrite
          THEN /\ wk' = [wk EXCEPT ![w].skipped = @ + 1, ![w].idx = @ + 1]
               /\ UNCHANGED runs
          ELSE /\ runs' = update_run(runs, task.run_id,
                                     [progress |-> ModuleProgress(done, total)])
               /\ wk' = Goto(w, "c_gen")
    /\ UNCHANGED <<lim, fx, eng, pending, processing, flushed, courses, modules, roadmaps,
                   next_task, crashes, hist>>

\* Faulty variant: the text is kept in memory, nothing is committed per module
WriteModule_Deferred(mods, c, idx, md) == mods

\* Lines 302-303: m.content_md = md; db.commit()
WriteModule(mods, c, idx, md) == [mods EXCEPT ![c][idx] = md]

\* Lines 295-304: write_module_markdown returns validated markdown, which is
\* committed to the module at once, or raises; the commit raises as well when
\* the module's row is gone
ModulesGenerate(w) ==
    /\ wk[w].pc = "c_gen"
    /\ \E ok \in BOOLEAN :
          IF ok /\ wk[w].course \in DOMAIN courses
          THEN /\ modules' = WriteModule(modules, wk[w].course, wk[w].idx, "gen")
               /\ wk' = [wk EXCEPT ![w].pc = "c_loop", ![w].written = @ + 1,
                                   ![w].idx = @ + 1]
          ELSE /\ wk' = Goto(w, "c_exc")
               /\ UNCHANGED modules
    /\ UNCHANGED <<lim, fx, eng, pending, processing, runs, flushed, courses, roadmaps,
                   next_task, crashes, hist>>

\* Lines 306-307: the course is marked ready (the commit raises when the
\* course's row is gone)
ModulesReady(w) ==
    /\ wk[w].pc = "c_ready"
    /\ IF wk[w].course \in DOMAIN courses
       THEN /\ courses' = [courses EXCEPT ![wk[w].course].status = "ready"]
            /\ wk' = Goto(w, "c_finish")
       ELSE /\ wk' = Goto(w, "c_exc")
            /\ UNCHANGED courses
    /\ UNCHANGED <<lim, fx, eng, pending, processing, runs, flushed, modules, roadmaps,
                   next_task, crashes, hist>>

\* Lines 309-316: succeeded / 100 / finished_at; the counters are returned
ModulesFinish(w) ==
    /\ wk[w].pc = "c_finish"
    /\ runs' = update_run(runs, wk[w].task.run_id, Succeeded)
    /\ wk' = [wk EXCEPT ![w].pc = "ack", ![w].ret = "ok"]
    /\ hist' = [hist EXCEPT !.snap[w] = <<>>]
    /\ UNCHANGED <<lim, fx, eng, pending, processing, flushed, courses, modules, roadmaps,
                   next_task, crashes>>

\* Lines 318-320: the except branch marks the run failed and re-raises
ModulesExcept(w) ==
    /\ wk[w].pc = "c_exc"
    /\ runs' = update_run(runs, wk[w].task.run_id, Failed("Exception"))
    /\ wk' = Goto(w, Reraise)
    /\ hist' = [hist EXCEPT !.snap[w] = <<>>]
    /\ UNCHANGED <<lim, fx, eng, pending, processing, flushed, courses, modules, roadmaps,
                   next_task, crashes>>

\* ------------------------------------------------------ courses/routes.py
\* delete_course: the user's course is deleted; its modules go with it
\* (course_modules.course_id is ON DELETE CASCADE)
DeleteCourse ==
    /\ \E c \in DOMAIN courses :
          /\ courses[c].user_id = User
          /\ courses' = [x \in DOMAIN courses \ {c} |-> courses[x]]
          /\ modules' = [x \in DOMAIN modules \ {c} |-> modules[x]]
    /\ UNCHANGED <<lim, fx, eng, pending, processing, runs, flushed, roadmaps, wk,
                   next_task, crashes, hist>>

\* ------------------------------------------------------------------- Next
Next ==
    \/ StartGeneration
    \/ StartCourseModulesGeneration
    \/ CommitRun
    \/ EnqueueJob
    \/ \E w \in Workers : Dequeue(w)
    \/ \E w \in Workers : MarkRunning(w)
    \/ \E w \in Workers : Dispatch(w)
    \/ \E w \in Workers : Ack(w)
    \/ \E w \in Workers : Except(w)
    \/ \E w \in Workers : RequeueLRem(w)
    \/ \E w \in Workers : RequeueLPush(w)
    \/ \E w \in Workers : Exhausted(w)
    \/ \E w \in Workers : DeadLetter(w)
    \/ \E w \in Workers : Crash(w)
    \/ \E w \in Workers : OutlineStart(w)
    \/ \E w \in Workers : OutlineRoadmap(w)
    \/ \E w \in Workers : OutlineGenerate(w)
    \/ \E w \in Workers : OutlineSave(w)
    \/ \E w \in Workers : OutlineDone(w)
    \/ \E w \in Workers : OutlineExcept(w)
    \/ \E w \in Workers : ModulesStart(w)
    \/ \E w \in Workers : ModulesBegin(w)
    \/ \E w \in Workers : ModulesLoop(w)
    \/ \E w \in Workers : ModulesGenerate(w)
    \/ \E w \in Workers : ModulesReady(w)
    \/ \E w \in Workers : ModulesFinish(w)
    \/ \E w \in Workers : ModulesExcept(w)

Spec == Init /\ [][Next]_vars

\* The same worker loop and handlers without crashes, for one worker and one job
NextSolo ==
    \/ StartGeneration
    \/ StartCourseModulesGeneration
    \/ CommitRun
    \/ EnqueueJob
    \/ \E w \in Workers : Dequeue(w)
    \/ \E w \in Workers : MarkRunning(w)
    \/ \E w \in Workers : Dispatch(w)
    \/ \E w \in Workers : Ack(w)
    \/ \E w \in Workers : Except(w)
    \/ \E w \in Workers : RequeueLRem(w)
    \/ \E w \in Workers : RequeueLPush(w)
    \/ \E w \in Workers : Exhausted(w)
    \/ \E w \in Workers : DeadLetter(w)
    \/ \E w \in Workers : OutlineStart(w)
    \/ \E w \in Workers : OutlineRoadmap(w)
    \/ \E w \in Workers : OutlineGenerate(w)
    \/ \E w \in Workers : OutlineSave(w)
    \/ \E w \in Workers : OutlineDone(w)
    \/ \E w \in Workers : OutlineExcept(w)
    \/ \E w \in Workers : ModulesStart(w)
    \/ \E w \in Workers : ModulesBegin(w)
    \/ \E w \in Workers : ModulesLoop(w)
    \/ \E w \in Workers : ModulesGenerate(w)
    \/ \E w \in Workers : ModulesReady(w)
    \/ \E w \in Workers : ModulesFinish(w)
    \/ \E w \in Workers : ModulesExcept(w)

SpecSolo == InitSolo /\ [][NextSolo]_vars

\* One iteration step of worker w's loop, handlers included: everything the
\* worker process does by itself
WorkerLoop(w) ==
    \/ Dequeue(w)
    \/ MarkRunning(w)
    \/ Dispatch(w)
    \/ Ack(w)
    \/ Except(w)
    \/ RequeueLRem(w)
    \/ RequeueLPush(w)
    \/ Exhausted(w)
    \/ DeadLetter(w)
    \/ OutlineStart(w)
    \/ OutlineRoadmap(w)
    \/ OutlineGenerate(w)
    \/ OutlineSave(w)
    \/ OutlineDone(w)
    \/ OutlineExcept(w)
    \/ ModulesStart(w)
    \/ ModulesBegin(w)
    \/ ModulesLoop(w)
    \/ ModulesGenerate(w)
    \/ ModulesReady(w)
    \/ ModulesFinish(w)
    \/ ModulesExcept(w)

\* Two workers, of which one may crash, and one job
InitLive ==
    /\ Start
    /\ Quiet
    /\ lim = [workers |-> NumWorkers, jobs |-> SoloJobs, observe |-> FALSE, faults |-> 0]

\* worker.py:19-26 runs the loop in a process of its own; `while True` at
\* tasks.py:332 takes the next step whenever there is one, Redis and the
\* database answer, and every handler returns or raises: a live worker that
\* can step does step
SpecLive == InitLive /\ [][Next]_vars /\ \A w \in Workers : WF_vars(WorkerLoop(w))

\* One content job on course 1, one worker that may crash, and the user may
\* delete the course at any moment
NextContent ==
    \/ StartCourseModulesGeneration
    \/ CommitRun
    \/ DeleteCourse
    \/ \E w \in Workers : Dequeue(w)
    \/ \E w \in Workers : MarkRunning(w)
    \/ \E w \in Workers : Dispatch(w)
    \/ \E w \in Workers : Ack(w)
    \/ \E w \in Workers : Except(w)
    \/ \E w \in Workers : RequeueLRem(w)
    \/ \E w \in Workers : RequeueLPush(w)
    \/ \E w \in Workers : Exhausted(w)
    \/ \E w \in Workers : DeadLetter(w)
    \/ \E w \in Workers : Crash(w)
    \/ \E w \in Workers : ModulesStart(w)
    \/ \E w \in Workers : ModulesBegin(w)
    \/ \E w \in Workers : ModulesLoop(w)
    \/ \E w \in Workers : ModulesGenerate(w)
    \/ \E w \in Workers : ModulesReady(w)
    \/ \E w \in Workers : ModulesFinish(w)
    \/ \E w \in Workers : ModulesExcept(w)

SpecContent == InitContent /\ [][NextContent]_vars

\* ------------------------------------------- Redis / database call failures
\* A call to Redis or to the database raises (connection lost, timeout).
\* Line 336 inside the try block: brpoplpush raises, the except branch finds
\* task_raw empty (lines 381-382) and the loop goes on
DequeueRaises(w) ==
    /\ w <= lim.workers
    /\ wk[w].pc = "idle"
    /\ lim.faults > 0
    /\ lim' = [lim EXCEPT !.faults = @ - 1]
    /\ UNCHANGED <<fx, eng, pending, processing, runs, flushed, courses, modules,
                   roadmaps, wk, next_task, crashes, hist>>

\* Positions of the worker loop's try block whose next call goes to Redis or
\* to the database (lines 349, 358, 366, 372, 375); the exception is caught at
\* line 377
LoopCalls(w) ==
    \/ wk[w].pc \in {"picked", "ack"}
    \/ /\ wk[w].pc = "dispatch"
       /\ wk[w].task.type # OUTLINE
       /\ ~(wk[w].task.type = MODULES /\ wk[w].task.course_id # None)

\* Positions inside the try block of a handler; the exception is caught by
\* the handler's except branch (lines 212, 318)
OutlineCalls == {"o_start", "o_roadmap", "o_gen", "o_save", "o_done"}
ModulesCalls == {"c_start", "c_begin", "c_loop", "c_gen", "c_ready", "c_finish"}

\* The call the worker is about to make inside the try block raises: in the
\* worker loop and in a handler's except branch (whose failure write is then
\* not made) the exception reaches line 377, in a handler its except branch
RaisesInTry(w) ==
    /\ lim.faults > 0
    /\ \/ /\ LoopCalls(w) \/ wk[w].pc \in {"o_exc", "c_exc"}
          /\ wk' = Goto(w, "except")
       \/ /\ wk[w].pc \in OutlineCalls
          /\ wk' = Goto(w, "o_exc")
       \/ /\ wk[w].pc \in ModulesCalls
          /\ wk' = Goto(w, "c_exc")
    /\ lim' = [lim EXCEPT !.faults = @ - 1]
    /\ hist' = IF wk[w].pc \in ModulesCalls \cup {"c_exc"}
               THEN [hist EXCEPT !.snap[w] = <<>>] ELSE hist
    /\ UNCHANGED <<fx, eng, pending, processing, runs, flushed, courses, modules,
                   roadmaps, next_task, crashes>>

\* Lines 396, 404, 405, 409, 415 are outside any try block: an exception
\* raised there leaves process_roadmap_generation_queue; worker.py:29-32
\* prints it and exits with status 1
RaisesInExcept(w) ==
    /\ lim.faults > 0
    /\ wk[w].pc \in {"except", "requeue_lrem", "requeue_lpush", "exhausted", "dead_lrem"}
    /\ wk' = Set(w, [IdleWorker EXCEPT !.pc = "terminated"])
    /\ lim' = [lim EXCEPT !.faults = @ - 1]
    /\ UNCHANGED <<fx, eng, pending, processing, runs, flushed, courses, modules,
                   roadmaps, next_task, crashes, hist>>

\* One worker and one job, with MaxFaults failing calls
InitFaults ==
    /\ Start
    /\ Quiet
    /\ lim = [workers |-> SoloWorkers, jobs |-> SoloJobs, observe |-> FALSE,
              faults |-> MaxFaults]

NextFaults ==
    \/ NextSolo
    \/ \E w \in Workers : DequeueRaises(w)
    \/ \E w \in Workers : RaisesInTry(w)
    \/ \E w \in Workers : RaisesInExcept(w)

SpecFaults == InitFaults /\ [][NextFaults]_vars

\* ------------------------------------------------ entries written by others
\* One worker and two list entries, of which any may be foreign
InitForeign ==
    /\ Start
    /\ Quiet
    /\ lim = [workers |-> SoloWorkers, jobs |-> MaxJobs, observe |-> FALSE, faults |-> 0]

NextForeign ==
    \/ NextSolo
    \/ ForeignPush

SpecForeign == InitForeign /\ [][NextForeign]_vars

\* ------------------------------------------ generation/routes.py: run status
\* A second user, who owns no run
OtherUser == 2

\* Faulty variant: the stored result is shown whatever the status
ResultShown_Always(status) == TRUE

\* Line 115: run.result_json if run.status == "succeeded" else None
ResultShown(status) == status = "succeeded"

\* Lines 98-117: the run is looked up by id and owner in the committed rows;
\* 404 when there is none, else the projection of the row (result_json: a
\* payload is present in the response)
get_run_status(rs, run_id, user) ==
    IF run_id \notin DOMAIN rs \/ rs[run_id].user_id # user
    THEN [code |-> 404, body |-> [error |-> "not_found"]]
    ELSE LET run == rs[run_id] IN
         [code |-> 200,
          body |-> [id |-> run_id, status |-> run.status, progress |-> run.progress,
                    error |-> run.error, course_id |-> run.course_id,
                    result_json |-> IF ResultShown(run.status) THEN run.result_json
                                    ELSE FALSE]]

\* GET /runs/{run_id} by a logged-in user
GetRunStatus ==
    /\ \E run_id \in RunIds, user \in {User, OtherUser} :
          fx' = [Call("get_run_status", <<run_id, user>>, 0) EXCEPT
                    !.res = get_run_status(runs, run_id, user), !.done = TRUE]
    /\ UNCHANGED <<lim, eng, pending, processing, runs, flushed, courses, modules,
                   roadmaps, wk, next_task, crashes, hist>>

\* One worker and one job, and the run status is polled at any moment
NextQuery ==
    \/ NextSolo
    \/ GetRunStatus

SpecQuery == InitSolo /\ [][NextQuery]_vars

\* ------------------------------------------------- a course of another user
\* One worker and two jobs; besides course 1 there is course 2, of another
\* user, built on that user's roadmap and without content yet
InitOwner ==
    /\ pending = <<>>
    /\ processing = <<>>
    /\ runs = <<>>
    /\ flushed = <<>>
    /\ roadmaps = (1 :> [user_id |-> User, duration_weeks |-> MaxWeeks]) @@
                  (2 :> [user_id |-> OtherUser, duration_weeks |-> MaxWeeks])
    /\ courses = (1 :> [user_id |-> User, roadmap_id |-> 1, status |-> "ready"]) @@
                 (2 :> [user_id |-> OtherUser, roadmap_id |-> 2, status |-> "draft"])
    /\ modules = (1 :> [i \in 1..MaxWeeks |-> IF i = 1 THEN "seed" ELSE "none"]) @@
                 (2 :> [i \in 1..MaxWeeks |-> "none"])
    /\ wk = [w \in Workers |-> IdleWorker]
    /\ next_task = 1
    /\ crashes = 0
    /\ hist = [enq |-> <<>>,
               delivered |-> [t \in TaskIds |-> 0],
               raised |-> [t \in TaskIds |-> 0],
               marked |-> {},
               acked |-> {},
               dead |-> {},
               snap |-> [w \in Workers |-> <<>>]]
    /\ Quiet
    /\ lim = [workers |-> SoloWorkers, jobs |-> MaxJobs, observe |-> FALSE, faults |-> 0]

SpecOwner == InitOwner /\ [][NextSolo]_vars

\* ------------------------------------------- inputs of the pure functions
\* Texts for the JSON extraction: every text over an opening brace, a closing
\* brace and another character up to MaxTextLen, and the example
\* noise{"a":{"b":1}}tail{"c":2}
ExampleText ==
    <<"n", "o", "i", "s", "e", "{", "\"", "a", "\"", ":", "{", "\"", "b", "\"", ":",
      "1", "}", "}", "t", "a", "i", "l", "{", "\"", "c", "\"", ":", "2", "}">>

TextInputs ==
    UNION {[1..n -> {"{", "}", "x"}] : n \in 0..MaxTextLen} \cup {ExampleText}

\* Outlines: week numbers 1..L for L around the requested duration, with one
\* number replaced or two neighbours swapped; one week of the outline takes
\* its title and outcomes from the input sets, the others are well-formed
Canon(L) == [i \in 1..L |-> i]

NumsInputs(N) ==
    UNION {{Canon(L)}
           \cup {[Canon(L) EXCEPT ![p] = v] : p \in 1..L, v \in 0..(N + 2)}
           \cup {[Canon(L) EXCEPT ![p] = p + 1, ![p + 1] = p] : p \in 1..(L - 1)}
           : L \in (N - 1)..(N + 1)}

Outcomes(k) == [i \in 1..k |-> <<"o">>]

TitleInputs ==
    {<<>>, <<" ">>, <<" ", " ", " ">>, <<"a">>, <<"a", "b", "c">>,
     <<" ", "a", "b", "c", " ">>}

OutcomesInputs ==
    {Outcomes(k) : k \in 0..MaxOutcomes}
    \cup {<<<<"o">>, <<>>>>, <<<<" ">>, <<"o">>>>, <<<<"o">>, <<"o">>, <<" ", " ">>>>}

WeekPlan(week, title, outcomes) ==
    [week |-> week, title |-> title, outcomes |-> outcomes]

Outline(nums, p, title, outcomes) ==
    [weeks |-> [i \in 1..Len(nums) |->
                   IF i = p THEN WeekPlan(nums[i], title, outcomes)
                   ELSE WeekPlan(nums[i], <<"a", "b", "c">>, Outcomes(2))]]

\* Markdown: the six headings (or a list with one heading dropped, doubled,
\* swapped with its neighbour or replaced), a line of text under each, and
\* under "Practice exercises" up to MaxItems numbered, bulleted or plain lines
NumberedLine == <<"1", ".", " ", "x">>
BulletedLine == <<"-", " ", "x">>
TextLine == <<"x">>
OtherHeadings == {H2("Extra"), H2("Worked example (with Python code)")}

\* Lines that may be added to a well-formed text: a level-1 heading, a
\* level-3 heading, an indented level-2 heading, a numbered line
ExtraLines ==
    {<<"#", " ", "Title">>, <<"#", "#", "#", " ", "Sub">>,
     <<" ", " ", "#", "#", " ", "Overview">>, NumberedLine}

Drop(s, i) == SubSeq(s, 1, i - 1) \o SubSeq(s, i + 1, Len(s))
InsertAfter(s, i, x) == SubSeq(s, 1, i) \o <<x>> \o SubSeq(s, i + 1, Len(s))

HeadingsInputs ==
    LET r == required_headings IN
    {r}
    \cup {Drop(r, i) : i \in 1..Len(r)}
    \cup {InsertAfter(r, i, r[i]) : i \in 1..Len(r)}
    \cup {[r EXCEPT ![i] = r[i + 1], ![i + 1] = r[i]] : i \in 1..(Len(r) - 1)}
    \cup {[r EXCEPT ![i] = h] : i \in 1..Len(r), h \in OtherHeadings}

BodyInputs ==
    UNION {[1..n -> {NumberedLine, BulletedLine, TextLine}] : n \in 0..MaxItems}

RECURSIVE Doc(_, _)
Doc(headings, body) ==
    IF headings = <<>> THEN <<>>
    ELSE <<Head(headings)>>
         \o (IF Head(headings) = H2("Practice exercises") THEN body ELSE <<TextLine>>)
         \o Doc(Tail(headings), body)

\* Calls of update_run: a table of two runs, the id of one of them, of no
\* run or None, and two sets of keyword arguments
Opt(S) == {<<>>} \cup {<<v>> : v \in S}

UpdateArgs ==
    [status : Opt({"running", "failed"}), progress : Opt({5, 60}),
     message : Opt({"m"}), error : Opt({"e"}), result_json : Opt({"{}"}),
     started : BOOLEAN, finished : BOOLEAN]

SecondArgs ==
    [status : Opt({"succeeded"}), progress : Opt({100}), message : {<<>>},
     error : Opt({"e2"}), result_json : {<<>>}, started : BOOLEAN,
     finished : {FALSE}]

RunRows ==
    (1 :> [user_id |-> User, roadmap_id |-> 1, course_id |-> None,
           status |-> "queued", progress |-> 0, message |-> "Queued", error |-> "",
           result_json |-> "", started_at |-> None, finished_at |-> None])
    @@ (2 :> [user_id |-> User, roadmap_id |-> 1, course_id |-> None,
              status |-> "running", progress |-> 20, message |-> "Planning",
              error |-> "", result_json |-> "", started_at |-> 1,
              finished_at |-> None])

\* --------------------------------------- one call of a pure function
InitPure ==
    /\ Start
    /\ eng = NoEngine
    /\ lim = [workers |-> 0, jobs |-> 0, observe |-> FALSE, faults |-> 0]
    /\ \/ \E text \in TextInputs : fx = Call("extract_first_json_object", text, 0)
       \/ \E N \in 4..MaxDuration :
             \E nums \in NumsInputs(N), title \in TitleInputs,
                outcomes \in OutcomesInputs :
                \E p \in {1, Len(nums)} :
                   fx = Call("validate_outline", Outline(nums, p, title, outcomes), N)
       \/ \E headings \in HeadingsInputs, body \in BodyInputs :
             fx = Call("validate_module_markdown", Doc(headings, body), 0)
       \/ \E body \in BodyInputs, extra \in ExtraLines :
             \E pos \in 0..Len(Doc(required_headings, body)) :
                fx = Call("validate_module_markdown",
                          InsertAfter(Doc(required_headings, body), pos, extra), 0)
       \/ \E run_id \in {None, 1, 2, 3}, a \in UpdateArgs, b \in SecondArgs :
             fx = Call("update_run", [rs |-> RunRows, run_id |-> run_id, a |-> a, b |-> b], 0)

Return(res) ==
    /\ fx' = [fx EXCEPT !.res = res, !.done = TRUE]
    /\ UNCHANGED <<lim, eng, pending, processing, runs, flushed, courses, modules,
                   roadmaps, wk, next_task, crashes, hist>>

ExtractFirstJsonObject ==
    /\ fx.fn = "extract_first_json_object" /\ ~fx.done
    /\ Return(extract_first_json_object(fx.arg))

ValidateOutline ==
    /\ fx.fn = "validate_outline" /\ ~fx.done
    /\ Return(validate_outline(fx.arg, fx.duration))

ValidateModuleMarkdown ==
    /\ fx.fn = "validate_module_markdown" /\ ~fx.done
    /\ Return(validate_module_markdown(fx.arg))

\* update_run applied once with the arguments a, twice with a, and with a
\* and b in both orders; the calls are made at the times 2 and 3
UpdateRun ==
    /\ fx.fn = "update_run" /\ ~fx.done
    /\ LET rs == fx.arg.rs
           run_id == fx.arg.run_id
           then(args1, args2) ==
               update_run(update_run(rs, run_id, Passed(args1, 2)), run_id,
                          Passed(args2, 3))
       IN Return([once |-> update_run(rs, run_id, Passed(fx.arg.a, 2)),
                  twice |-> then(fx.arg.a, fx.arg.a),
                  ab |-> then(fx.arg.a, fx.arg.b),
                  ba |-> then(fx.arg.b, fx.arg.a)])

NextPure ==
    \/ ExtractFirstJsonObject
    \/ ValidateOutline
    \/ ValidateModuleMarkdown
    \/ UpdateRun

SpecPure == InitPure /\ [][NextPure]_vars

\* ------------------------------------------------ the generation engines
\* eng is one invocation of generate_roadmap_outline ("outline") or of
\* write_module_markdown ("module"): pc, the number of generate_text calls,
\* the loop counter, the prompt of the next call, the text last generated, the
\* last error and the value returned (a one-element sequence, empty while
\* nothing is returned).  What the generator returns is drawn from small sets.
FirstPrompt == [repair |-> FALSE, error |-> "", invalid |-> <<>>]

\* Lines 111-123 / 107-117: the original prompt with the error and the
\* invalid output appended
RepairPrompt(error, invalid) == [repair |-> TRUE, error |-> error, invalid |-> invalid]

NewEngine(engine) ==
    [engine |-> engine, pc |-> "call", calls |-> 0, attempt |-> 1,
     prompt |-> FirstPrompt, raw |-> <<>>, last_err |-> "", result |-> <<>>]

\* The planner's answers for a 4-week roadmap: the text (braces and other
\* characters) and the outline its first object encodes
GoodOutline == Outline(Canon(4), 1, <<"a", "b", "c">>, Outcomes(2))
GapOutline == Outline(<<1, 2, 4, 5>>, 1, <<"a", "b", "c">>, Outcomes(2))

PlannerOutputs ==
    {[text |-> t, outline |-> o] :
        t \in {<<"{", "}">>, <<"x", "{", "}", "x">>, <<"x">>, <<"{", "x">>},
        o \in {GoodOutline, GapOutline}}

\* The writer's answers: a valid text (also with blank lines around it), one
\* with bulleted practice items, one without "Common mistakes"
GoodDoc == Doc(required_headings, <<NumberedLine, NumberedLine, NumberedLine>>)

WriterOutputs ==
    {GoodDoc,
     <<<<" ">>>> \o GoodDoc \o <<<<>>>>,
     Doc(required_headings, <<BulletedLine, BulletedLine, BulletedLine>>),
     Doc(Drop(required_headings, 5), <<NumberedLine, NumberedLine, NumberedLine>>)}

InitEngine ==
    /\ Start
    /\ fx = NoCall
    /\ lim = [workers |-> 0, jobs |-> 0, observe |-> FALSE, faults |-> 0]
    /\ \E engine \in {"outline", "module"} : eng = NewEngine(engine)

Engine(e) ==
    /\ eng' = e
    /\ UNCHANGED <<lim, fx, pending, processing, runs, flushed, courses, modules,
                   roadmaps, wk, next_task, crashes, hist>>

\* workflow.py line 86: for attempt in range(1, 4)
PlannerAttempts == 3

\* The JSON a text is when it is one object from its first to its last
\* character; model_validate_json and _validate_outline applied to it
StrictError(raw) ==
    IF extract_first_json_object(raw.text) # Some(raw.text) THEN "ValidationError"
    ELSE OutlineError(raw.outline, 4)

\* Line 87: llm.generate_text with the current prompt
PlannerCall ==
    /\ eng.engine = "outline" /\ eng.pc = "call"
    /\ \E raw \in PlannerOutputs :
          Engine([eng EXCEPT !.calls = @ + 1, !.raw = raw, !.pc = "strict"])

\* Lines 90-95: strict validation of the whole text
PlannerStrict ==
    /\ eng.engine = "outline" /\ eng.pc = "strict"
    /\ IF StrictError(eng.raw) = "ok"
       THEN Engine([eng EXCEPT !.pc = "returned", !.result = <<eng.raw.outline>>])
       ELSE Engine([eng EXCEPT !.pc = "extract", !.last_err = StrictError(eng.raw)])

\* Lines 98-105: validation of the first embedded object, if there is one
PlannerExtract ==
    /\ eng.engine = "outline" /\ eng.pc = "extract"
    /\ LET extracted_json == extract_first_json_object(eng.raw.text) IN
       IF extracted_json.none
       THEN Engine([eng EXCEPT !.pc = "repair"])
       ELSE IF OutlineError(eng.raw.outline, 4) = "ok"
       THEN Engine([eng EXCEPT !.pc = "returned", !.result = <<eng.raw.outline>>])
       ELSE Engine([eng EXCEPT !.pc = "repair",
                               !.last_err = OutlineError(eng.raw.outline, 4)])

\* Lines 108-123 and the loop header: the repair prompt is built; the loop
\* goes on to the next call, or ends and line 125 raises RuntimeError
PlannerRepair ==
    /\ eng.engine = "outline" /\ eng.pc = "repair"
    /\ LET extracted_json == extract_first_json_object(eng.raw.text)
           invalid_json == IF extracted_json.none THEN eng.raw.text
                           ELSE extracted_json.text
       IN Engine([eng EXCEPT !.prompt = RepairPrompt(eng.last_err, invalid_json),
                             !.attempt = @ + 1,
                             !.pc = IF eng.attempt < PlannerAttempts THEN "call"
                                    ELSE "raised"])

\* module_writer.py line 99: the first generate_text call, stripped
WriterCall ==
    /\ eng.engine = "module" /\ eng.pc = "call"
    /\ \E raw \in WriterOutputs :
          Engine([eng EXCEPT !.calls = @ + 1, !.raw = StripText(raw),
                             !.pc = "validate"])

\* Lines 102-117: the text is returned when it validates, else the repair
\* prompt is built from the error and the text
WriterValidate ==
    /\ eng.engine = "module" /\ eng.pc = "validate"
    /\ LET e == validate_module_markdown(eng.raw).error IN
       IF e = ""
       THEN Engine([eng EXCEPT !.pc = "returned", !.result = <<eng.raw>>])
       ELSE Engine([eng EXCEPT !.pc = "repair_call", !.last_err = e,
                               !.prompt = RepairPrompt(e, eng.raw)])

\* Line 119: the one repair call, stripped
WriterRepairCall ==
    /\ eng.engine = "module" /\ eng.pc = "repair_call"
    /\ \E raw \in WriterOutputs :
          Engine([eng EXCEPT !.calls = @ + 1, !.raw = StripText(raw),
                             !.pc = "final_validate"])

\* Faulty variant: the repaired text is returned unchecked
FinalError_Unchecked(repaired_markdown) == ""

\* Line 123: validate_module_markdown(repaired_markdown), "" when it passes
FinalError(repaired_markdown) == validate_module_markdown(repaired_markdown).error

\* Lines 122-126: the repaired text is returned, or RuntimeError is raised
WriterFinalValidate ==
    /\ eng.engine = "module" /\ eng.pc = "final_validate"
    /\ LET e == FinalError(eng.raw) IN
       IF e = ""
       THEN Engine([eng EXCEPT !.pc = "returned", !.result = <<eng.raw>>])
       ELSE Engine([eng EXCEPT !.pc = "raised", !.last_err = e])

NextEngine ==
    \/ PlannerCall
    \/ PlannerStrict
    \/ PlannerExtract
    \/ PlannerRepair
    \/ WriterCall
    \/ WriterValidate
    \/ WriterRepairCall
    \/ WriterFinalValidate

SpecEngine == InitEngine /\ [][NextEngine]_vars

\* ===================================================== checked properties
InPending(t) == \E i \in 1..Len(pending) : pending[i].task_id = t
InProcessing(t) == \E i \in 1..Len(processing) : processing[i].task_id = t
Enqueued == 1..Len(hist.enq)
Busy(w) == wk[w].pc \notin {"idle", "crashed", "terminated"}
Holds(w, t) == Busy(w) /\ wk[w].task.task_id = t

\* The producer contract: the run has had one job only
SoleJob(r) == Cardinality({t \in Enqueued : hist.enq[t].run_id = r}) = 1

\* The regular case: the run has one job, and its row was committed when the
\* worker picked the job up (h is hist after the step looked at)
Regular(h, r) ==
    /\ SoleJob(r)
    /\ \E t \in h.marked : h.enq[t].run_id = r

\* C1: an outline job for a queued run, picked up (run marked running) by a
\* worker that does not crash and whose generator does not fail, ends with the
\* run succeeded at progress 100: when the handler has returned and the worker
\* is about to acknowledge the message, the run is succeeded / 100.
C1_OutlineRunSucceeds ==
    \A w \in Workers :
        LET task == wk[w].task IN
        ( /\ wk[w].pc = "ack"
          /\ task.type = OUTLINE
          /\ task.task_id \in hist.marked
          /\ SoleJob(task.run_id)
          /\ hist.raised[task.task_id] = 0
          /\ crashes = 0 )
        => /\ runs[task.run_id].status = "succeeded"
           /\ runs[task.run_id].progress = 100

\* C2: the status of a run changes only queued -> running, running -> succeeded
\* and running -> failed; nothing leaves succeeded or failed.  (Stated for the
\* regular case: one job per run, run committed before the job is picked up.)
C2_StatusTransitions ==
    [][\A r \in DOMAIN runs :
          (Regular(hist', r) /\ runs'[r].status # runs[r].status)
          => <<runs[r].status, runs'[r].status>> \in
                {<<"queued", "running">>, <<"running", "succeeded">>,
                 <<"running", "failed">>}]_vars

\* C3: a write committed to a run that is running and leaves it running never
\* lowers its progress.  (Stated for the regular case.)
C3_ProgressMonotone ==
    [][\A r \in DOMAIN runs :
          (Regular(hist', r) /\ runs[r].status = "running"
             /\ runs'[r].status = "running")
          => runs'[r].progress >= runs[r].progress]_vars

\* C4: after every step, finished_at is set exactly for the runs whose status
\* is succeeded or failed; started_at is set for every running run and for
\* every run that has just gone from running to a terminal status.  (Stated
\* for the regular case.)
C4_Timestamps ==
    [][\A r \in DOMAIN runs' : Regular(hist', r) =>
          /\ runs'[r].finished_at <=> runs'[r].status \in Terminal
          /\ runs'[r].status = "running" => runs'[r].started_at
          /\ (r \in DOMAIN runs /\ runs[r].status = "running"
                /\ runs'[r].status \in Terminal) => runs'[r].started_at]_vars

\* C5: every enqueued message that has not been acknowledged or dead-lettered
\* is in exactly one of pending and processing.
C5_ExactlyOneList ==
    \A t \in Enqueued \ hist.acked : InPending(t) # InProcessing(t)

\* C6: a job whose handler raises on every delivery is dead-lettered after its
\* 4th failed delivery: it has then been delivered 4 times and no more, it is in
\* neither list and held by no worker, and its run (regular case) is failed
\* with the retries-exhausted error; without a crash, a 4th failure always
\* leads there.
C6_RetryExhaustion ==
    \A t \in Enqueued :
        LET r == hist.enq[t].run_id IN
        /\ hist.raised[t] <= MAX_RETRIES + 1
        /\ hist.delivered[t] <= MAX_RETRIES + 1
        /\ t \in hist.dead =>
              /\ hist.raised[t] = MAX_RETRIES + 1
              /\ hist.delivered[t] = MAX_RETRIES + 1
              /\ ~InPending(t) /\ ~InProcessing(t)
              /\ \A w \in Workers : ~Holds(w, t)
              /\ Regular(hist, r) =>
                    /\ runs[r].status = "failed"
                    /\ runs[r].error = "Retries exhausted"
                    /\ runs[r].finished_at
        /\ (hist.raised[t] = MAX_RETRIES + 1 /\ crashes = 0) =>
              \/ t \in hist.dead
              \/ \E w \in Workers :
                    Holds(w, t) /\ wk[w].pc \in {"exhausted", "dead_lrem"}

C6_Witness ==
    \E t \in hist.dead :
        /\ Regular(hist, hist.enq[t].run_id)
        /\ runs[hist.enq[t].run_id].status = "failed"
        /\ hist.raised[t] = MAX_RETRIES + 1

\* C7: the attempt of every pending message is in 0..MAX_RETRIES; a failed
\* message is pushed back only with an incremented attempt <= MAX_RETRIES; when
\* the incremented attempt exceeds MAX_RETRIES the run is marked failed and the
\* message leaves processing without being pushed back.
C7_BoundedRetries ==
    [][/\ \A i \in 1..Len(pending') : pending'[i].attempt \in 0..MAX_RETRIES
       /\ \A w \in Workers :
             LET task == wk[w].task IN
             /\ (wk[w].pc = "except" /\ wk'[w].pc = "requeue_lrem")
                   => task.attempt + 1 <= MAX_RETRIES
             /\ (wk[w].pc = "requeue_lpush" /\ wk'[w].pc = "idle")
                   => /\ task.attempt + 1 <= MAX_RETRIES
                      /\ pending' = LPush(pending, [task EXCEPT !.attempt = @ + 1])
             /\ (wk[w].pc = "except" /\ task.attempt + 1 > MAX_RETRIES
                   /\ wk'[w].pc \notin {"except", "crashed"})
                   => wk'[w].pc = "exhausted"
             /\ (wk[w].pc = "exhausted" /\ wk'[w].pc = "dead_lrem"
                   /\ task.run_id \in DOMAIN runs)
                   => runs'[task.run_id].status = "failed"
             /\ (wk[w].pc = "dead_lrem" /\ wk'[w].pc = "idle")
                   => /\ pending' = pending
                      /\ \A i \in 1..Len(processing') :
                            processing'[i].task_id # task.task_id]_vars

C7_Witness ==
    \E i \in 1..Len(pending) :
        /\ pending[i].attempt = MAX_RETRIES
        /\ hist.raised[pending[i].task_id] = MAX_RETRIES

\* C8: when the worker acknowledges a message of an existing run, the run is
\* succeeded or failed.  (Stated for the regular case.)
C8_AckOnlyWhenTerminal ==
    \A w \in Workers :
        (wk[w].pc = "ack" /\ Regular(hist, wk[w].task.run_id)
            /\ wk[w].task.run_id \in DOMAIN runs)
        => runs[wk[w].task.run_id].status \in Terminal

\* C9: the outline handler invoked on a run that is succeeded, failed or
\* running returns skipped and writes nothing: run, courses and modules are
\* unchanged and the handler goes on to no generator call.
C9_OutlineIdempotent ==
    [][\A w \in Workers :
          LET r == wk[w].task.run_id IN
          ( /\ wk[w].pc = "o_start"
            /\ wk'[w].pc \notin {"o_start", "crashed"}
            /\ r \in DOMAIN runs
            /\ runs[r].status \in {"succeeded", "failed", "running"} )
          => /\ wk'[w].ret = "skipped"
             /\ wk'[w].pc = "ack"
             /\ UNCHANGED <<runs, courses, modules>>]_vars

C9_Witness ==
    \E w \in Workers :
        /\ wk[w].pc = "ack" /\ wk[w].ret = "skipped"
        /\ runs[wk[w].task.run_id].status = "succeeded"

\* C10: no two workers hold the same message instance (same task_id and
\* attempt) at the same time, and a held instance is at most once in processing.
C10_OneWorkerPerMessage ==
    /\ \A w1, w2 \in Workers :
          (w1 # w2 /\ Busy(w1) /\ Busy(w2)) => wk[w1].task # wk[w2].task
    /\ \A i, j \in 1..Len(processing) :
          i # j => processing[i] # processing[j]

C10_Witness ==
    \E w1, w2 \in Workers :
        /\ w1 # w2 /\ Busy(w1) /\ Busy(w2)
        /\ wk[w1].task.run_id = wk[w2].task.run_id
        /\ wk[w1].pc = "c_gen" /\ wk[w2].pc = "c_gen"

\* C11: a job is enqueued only after its queued run exists for the workers:
\* whenever a worker holds a dequeued job that names a run, the run is in the
\* run store the worker reads; and no job is dropped (acknowledged) while its
\* run stays queued.
C11_RunVisibleAtDequeue ==
    /\ \A w \in Workers :
          (Busy(w) /\ wk[w].task.run_id # None) => wk[w].task.run_id \in DOMAIN runs
    /\ \A t \in hist.acked :
          LET r == hist.enq[t].run_id IN
          (r \in DOMAIN runs /\ SoleJob(r)) => runs[r].status # "queued"

KnownJobTypes == {OUTLINE, MODULES}

\* C12: a dequeued message of an unknown job type goes from dispatch straight
\* to the acknowledgement: its run is marked failed with an error naming the
\* type, no handler or generator step is taken for it, the acknowledgement
\* removes it from processing, and it is never pushed back on pending (the only
\* copies ever in pending are the enqueued ones, attempt 0, never delivered).
C12_UnknownJobType ==
    [][/\ \A w \in Workers :
             LET task == wk[w].task
                 r == task.run_id
             IN /\ ( /\ wk[w].pc = "dispatch"
                     /\ task.type \notin KnownJobTypes
                     /\ wk'[w].pc \notin {"dispatch", "crashed"} )
                   => /\ wk'[w].pc = "ack"
                      /\ r \in DOMAIN runs =>
                            /\ runs'[r].status = "failed"
                            /\ runs'[r].error = "Unknown job type: " \o task.type
                            /\ runs'[r].finished_at
                      /\ UNCHANGED <<pending, processing, courses, modules>>
                /\ ( /\ wk[w].pc = "ack"
                     /\ task.type \notin KnownJobTypes
                     /\ wk'[w].pc = "idle" )
                   => /\ pending' = pending
                      /\ \A i \in 1..Len(processing') :
                            processing'[i].task_id # task.task_id
                /\ (Busy(w) /\ task.type \notin KnownJobTypes)
                   => wk[w].pc \in {"picked", "dispatch", "ack"}
       /\ \A i \in 1..Len(pending') :
             pending'[i].type \notin KnownJobTypes
             => /\ pending'[i].attempt = 0
                /\ hist'.delivered[pending'[i].task_id] = 0]_vars

C12_Witness ==
    \E w \in Workers :
        /\ wk[w].pc = "idle"
        /\ \E t \in hist.acked :
              /\ hist.enq[t].type = UNKNOWN
              /\ hist.enq[t].run_id \in DOMAIN runs
              /\ runs[hist.enq[t].run_id].error = "Unknown job type: unknown_job_type"
              /\ ~InPending(t) /\ ~InProcessing(t)

\* What the content handler looks up and may not find
ContentNotFound(task) ==
    LET c == task.course_id IN
    \/ c \notin DOMAIN courses
    \/ courses[c].user_id # runs[task.run_id].user_id
    \/ courses[c].roadmap_id \notin DOMAIN roadmaps
    \/ modules[c] = <<>>

NonEmpty(content) == content \in {"seed", "gen"}

\* Number of modules of a content list that have content
WithContent(contents) ==
    Cardinality({i \in 1..Len(contents) : NonEmpty(contents[i])})

\* The invocation is not interleaved with another one on the same course: the
\* job of worker w is the only content job submitted for its course (h is hist)
OnlyContentJob(h, c) ==
    Cardinality({t \in 1..Len(h.enq) :
                    h.enq[t].type = MODULES /\ h.enq[t].course_id = c}) = 1

\* C14: when the content handler has gone through a course of T modules of
\* which K had content when it started, its counters are written = T - K,
\* skipped = K (overwrite false) or written = T, skipped = 0 (overwrite true),
\* so written + skipped = T; without overwrite the K modules are as they were,
\* and every other module holds generated text.  (Stated for an invocation
\* that is alone on its course.)
C14_ContentCounts ==
    \A w \in Workers :
        (wk[w].pc = "c_finish" /\ OnlyContentJob(hist, wk[w].course)) =>
            LET before == hist.snap[w]
                T == Len(before)
                K == WithContent(before)
                c == wk[w].course
                overwrite == wk[w].task.overwrite
            IN /\ wk[w].written + wk[w].skipped = T
               /\ wk[w].written = (IF overwrite THEN T ELSE T - K)
               /\ wk[w].skipped = (IF overwrite THEN 0 ELSE K)
               /\ c \in DOMAIN courses =>
                     \A i \in 1..T :
                         modules[c][i] = (IF NonEmpty(before[i]) /\ ~overwrite
                                          THEN before[i] ELSE "gen")

C14_Witness ==
    \E w \in Workers :
        /\ wk[w].pc = "c_finish"
        /\ ~wk[w].task.overwrite
        /\ WithContent(hist.snap[w]) = 2
        /\ wk[w].written = 1
        /\ wk[w].skipped = 2
        /\ modules[wk[w].course] = <<"seed", "gen", "seed">>

\* C15: the text of a module is committed in the step that generates it, so
\* when the generator is called for a module every module this invocation had
\* to write before it is already stored; no step other than such a write (or
\* the deletion of the course) changes the stored contents, in particular not
\* a handler failure, the retry path or a worker crash; and without overwrite
\* the generator is never called for a module that has content, so a
\* redelivery skips the modules written before the failure.  (The second part
\* is stated for an invocation that is alone on its course.)
C15_PartialProgressSurvives ==
    [][/\ modules' # modules =>
             \/ DOMAIN courses' # DOMAIN courses
             \/ \E w \in Workers :
                   /\ wk[w].pc = "c_gen" /\ wk'[w].pc = "c_loop"
                   /\ modules' = [modules EXCEPT ![wk[w].course][wk[w].idx] = "gen"]
       /\ \A w \in Workers :
             LET c == wk'[w].course
                 idx == wk'[w].idx
                 before == hist'.snap[w]
                 overwrite == wk'[w].task.overwrite
             IN ( /\ wk'[w].pc = "c_gen"
                  /\ c \in DOMAIN courses'
                  /\ OnlyContentJob(hist', c) ) =>
                   /\ \A j \in 1..(idx - 1) :
                         (~NonEmpty(before[j]) \/ overwrite) => modules'[c][j] = "gen"
                   /\ \A j \in 1..(idx - 1) : NonEmpty(modules'[c][j])
                   /\ ~overwrite => ~NonEmpty(modules'[c][idx])]_vars

C15_Witness ==
    \E w \in Workers :
        /\ wk[w].pc = "c_gen"
        /\ wk[w].task.attempt >= 1
        /\ ~wk[w].task.overwrite
        /\ wk[w].skipped >= 1
        /\ hist.snap[w][1] = "gen"
        /\ hist.enq[wk[w].task.task_id].course_id = 1
        /\ wk[w].idx = 3

\* Some character of the text is not a space
NonBlankText(s) == \E i \in 1..Len(s) : s[i] # " "

\* Exactly N weeks numbered 1, 2, ..., N in that order, each with a title that
\* is not blank and 2 to 6 outcomes none of which is blank
WellFormedOutline(outline, N) ==
    /\ Len(outline.weeks) = N
    /\ \A i \in 1..Len(outline.weeks) :
          LET w == outline.weeks[i] IN
          /\ w.week = i
          /\ NonBlankText(w.title)
          /\ Len(w.outcomes) \in 2..6
          /\ \A j \in 1..Len(w.outcomes) : NonBlankText(w.outcomes[j])

\* C16: the outline validator accepts a candidate for the duration N only if
\* it has exactly N weeks numbered 1..N in order, every title is non-blank and
\* every week has 2 to 6 non-blank outcomes; so a candidate with a gap, a
\* duplicate, an out-of-order or out-of-range number, a wrong count, a blank
\* title, too few or too many outcomes or a blank outcome is rejected.
C16_OutlineValidator ==
    (fx.fn = "validate_outline" /\ fx.done /\ fx.res = "ok")
    => WellFormedOutline(fx.arg, fx.duration)

C16_Witness ==
    /\ fx.fn = "validate_outline" /\ fx.done /\ fx.res = "ok"
    /\ fx.duration > 4
    /\ Len(fx.arg.weeks[1].outcomes) = 6
    /\ fx.arg.weeks[1].title = <<" ", "a", "b", "c", " ">>

\* Opening minus closing braces among the characters s..e of a text
Balance(text, s, e) ==
    Cardinality({i \in s..e : text[i] = "{"})
    - Cardinality({i \in s..e : text[i] = "}"})

\* The substring from the first opening brace to the first position at which
\* the braces opened from there on are all closed; none without such a place
FirstBalanced(text) ==
    LET opens == {i \in 1..Len(text) : text[i] = "{"} IN
    IF opens = {} THEN Nothing
    ELSE LET s == CHOOSE i \in opens : \A j \in opens : i <= j
             ends == {e \in s..Len(text) : Balance(text, s, e) = 0}
         IN IF ends = {} THEN Nothing
            ELSE Some(SubSeq(text, s, CHOOSE e \in ends : \A f \in ends : e <= f))

ExampleObject ==
    <<"{", "\"", "a", "\"", ":", "{", "\"", "b", "\"", ":", "1", "}", "}">>

\* C17: the JSON extraction returns the substring from the first '{' to the
\* first later position where the count of '{' minus '}' is back at 0, and
\* none when the text has no '{' or the count never returns to 0; for
\* noise{"a":{"b":1}}tail{"c":2} it returns {"a":{"b":1}}.
C17_JsonExtraction ==
    (fx.fn = "extract_first_json_object" /\ fx.done)
    => /\ fx.res = FirstBalanced(fx.arg)
       /\ fx.arg = ExampleText => fx.res = Some(ExampleObject)

C17_Witness ==
    /\ fx.fn = "extract_first_json_object" /\ fx.done
    /\ fx.arg = ExampleText
    /\ fx.res = Some(ExampleObject)

\* The lines of a markdown text without the spaces around them, and the
\* headings of level 1 and 2 among them
Stripped(md) == [i \in 1..Len(md) |-> Strip(md[i])]
IsLevel1(line) == StartsWith(line, <<"#", " ">>)
IsLevel2(line) == StartsWith(line, <<"#", "#", " ">>)

\* C18: the module-content validator accepts a text only if its level-2
\* headings are exactly the six required ones in order and it has no level-1
\* heading; and when a required heading is missing the text is rejected with
\* an error that names the heading as missing.
C18_HeadingsValidator ==
    (fx.fn = "validate_module_markdown" /\ fx.done) =>
        LET level2 == SelectSeq(Stripped(fx.arg), IsLevel2)
            level1 == SelectSeq(Stripped(fx.arg), IsLevel1)
        IN /\ fx.res.error = "" => (level2 = required_headings /\ level1 = <<>>)
           /\ \A i \in 1..Len(required_headings) :
                 required_headings[i] \notin SeqToSet(level2)
                 => /\ fx.res.error = "Invalid headings structure"
                    /\ required_headings[i] \in fx.res.missing

\* A numbered or bulleted line
IsItem(line) == line # <<>> /\ (IsDigit(line[1]) \/ line[1] = "-")

\* The number of items between "Practice exercises" and the next level-2
\* heading
PracticeItems(md) ==
    LET lines == Stripped(md)
        p == CHOOSE i \in 1..Len(lines) : lines[i] = H2("Practice exercises")
        after == {i \in (p + 1)..Len(lines) : IsLevel2(lines[i])}
        q == IF after = {} THEN Len(lines) + 1
             ELSE CHOOSE i \in after : \A j \in after : i <= j
    IN Cardinality({i \in (p + 1)..(q - 1) : IsItem(lines[i])})

\* C19: a text with the six required headings is accepted if and only if the
\* lines between "Practice exercises" and the next heading hold exactly 3
\* numbered or bulleted items; with any other count it is rejected with an
\* error that states the count found.
C19_PracticeItems ==
    ( /\ fx.fn = "validate_module_markdown" /\ fx.done
      /\ SelectSeq(Stripped(fx.arg), IsLevel2) = required_headings ) =>
        /\ fx.res.error = "" <=> PracticeItems(fx.arg) = 3
        /\ PracticeItems(fx.arg) # 3 => fx.res.found = PracticeItems(fx.arg)

\* C20: one engine invocation makes at most 2 generator calls: the second
\* call is made with the repair prompt (original prompt, error, invalid
\* output), and when the repaired output fails as well the engine raises
\* without another call.
C20_BoundedRepair ==
    eng.engine # "" =>
        /\ eng.calls <= 2
        /\ eng.calls = 2 => eng.prompt.repair
        /\ eng.pc = "raised" => eng.calls = 2

\* C21: what an engine returns has passed validation: the outline returned
\* by generate_roadmap_outline is the one last generated and is well-formed
\* for the requested 4 weeks, the text returned by write_module_markdown is the
\* one last generated and passes validate_module_markdown; nothing is returned
\* in any other position; the engine raises only on an answer that fails
\* validation, and it stops only by returning or raising.
C21_EngineSoundness ==
    /\ (eng.engine = "outline" /\ eng.pc = "returned") =>
          /\ eng.result = <<eng.raw.outline>>
          /\ WellFormedOutline(eng.result[1], 4)
    /\ (eng.engine = "module" /\ eng.pc = "returned") =>
          /\ eng.result = <<eng.raw>>
          /\ validate_module_markdown(eng.result[1]).error = ""
    /\ (eng.engine # "" /\ eng.pc # "returned") => eng.result = <<>>
    /\ (eng.engine = "outline" /\ eng.pc = "raised") =>
          ~WellFormedOutline(eng.raw.outline, 4) \/ extract_first_json_object(eng.raw.text).none
    /\ (eng.engine = "module" /\ eng.pc = "raised") =>
          validate_module_markdown(eng.raw).error # ""
    /\ (eng.engine # "" /\ ~ENABLED NextEngine) => eng.pc \in {"returned", "raised"}

C21_Witness ==
    /\ eng.engine = "module"
    /\ eng.pc = "returned"
    /\ eng.calls = 2
    /\ eng.result = <<GoodDoc>>
    /\ eng.prompt.repair

\* C22: a Redis or database failure raised anywhere in a loop iteration is
\* caught and the worker loop goes on: no worker loop ends on such a failure.
C22_LoopSurvives ==
    \A w \in Workers : wk[w].pc # "terminated"

Abandoned(task) ==
    /\ \E i \in 1..Len(processing) : processing[i] = task
    /\ \A w \in Workers : ~(Busy(w) /\ wk[w].task = task)

\* C24: an entry of the processing list whose worker has died stays in the
\* processing list after every step, its message is not in pending and is
\* held by no worker again; and an entry leaves the processing list only by a
\* step of the worker that holds it.
C24_NoReaper ==
    [][\A i \in 1..Len(processing) :
          LET task == processing[i] IN
          /\ Abandoned(task) =>
                /\ \E j \in 1..Len(processing') : processing'[j] = task
                /\ \A j \in 1..Len(pending') : pending'[j].task_id # task.task_id
                /\ \A w \in Workers :
                      wk'[w].pc \in {"idle", "crashed", "terminated"}
                         \/ wk'[w].task.task_id # task.task_id
          /\ (\A j \in 1..Len(processing') : processing'[j] # task) =>
                \E w \in Workers :
                   /\ Busy(w) /\ wk[w].task = task
                   /\ wk'[w].pc \in {"idle", "requeue_lpush"}]_vars

C24_Witness ==
    \E i \in 1..Len(processing), t \in hist.acked :
        /\ Abandoned(processing[i])
        /\ crashes = 1
        /\ t > processing[i].task_id
        /\ hist.delivered[processing[i].task_id] = 1
        /\ pending = <<>>
        /\ \A w \in Workers : ~Busy(w)

\* C25: when the generation engine raises inside a handler, the handler's
\* except branch writes status failed, a non-empty error and finished_at to
\* the run and re-raises; the worker loop then requeues the message with its
\* attempt incremented, at the head of pending, while the incremented attempt
\* is at most MAX_RETRIES, and else marks the run failed and removes the
\* message without requeuing it.
C25_ValidationFailureRetried ==
    [][\A w \in Workers :
          LET task == wk[w].task
              r == task.run_id
              gone == \A j \in 1..Len(processing') : processing'[j] # task
          IN /\ (wk[w].pc \in {"o_gen", "c_gen"} /\ wk'[w].pc \in {"o_exc", "c_exc"}) =>
                   runs' = runs
             /\ (wk[w].pc \in {"o_exc", "c_exc"} /\ wk'[w].pc # wk[w].pc) =>
                   /\ wk'[w].pc = "except"
                   /\ runs'[r].status = "failed"
                   /\ runs'[r].error # ""
                   /\ runs'[r].finished_at
             /\ (wk[w].pc = "except" /\ wk'[w].pc # "except") =>
                   wk'[w].pc = (IF task.attempt + 1 <= MAX_RETRIES
                                THEN "requeue_lrem" ELSE "exhausted")
             /\ (wk[w].pc = "requeue_lrem" /\ wk'[w].pc # "requeue_lrem") =>
                   wk'[w].pc = "requeue_lpush" /\ gone /\ pending' = pending
             /\ (wk[w].pc = "requeue_lpush" /\ wk'[w].pc # "requeue_lpush") =>
                   /\ pending' = <<[task EXCEPT !.attempt = task.attempt + 1]>> \o pending
                   /\ processing' = processing
             /\ (wk[w].pc = "exhausted" /\ wk'[w].pc # "exhausted") =>
                   /\ wk'[w].pc = "dead_lrem"
                   /\ runs'[r].status = "failed" /\ runs'[r].finished_at
             /\ (wk[w].pc = "dead_lrem" /\ wk'[w].pc # "dead_lrem") =>
                   gone /\ pending' = pending]_vars

C25_Witness ==
    \E i \in 1..Len(pending) :
        /\ pending[i].type = MODULES
        /\ pending[i].attempt = 2
        /\ hist.raised[pending[i].task_id] = 2
        /\ runs[pending[i].run_id].error = "Exception"

\* C26: the outline handler, started on a queued run, commits the progress
\* values 5, 20, 60, 85, 100 in that order: 5 with status running when it
\* starts, 20 before the generation, 60 after it, 85 with the course
\* structure, 100 with status succeeded; the status is running from 5 to 85.
\* A step by which the handler fails writes no progress, so a failed
\* invocation has committed a prefix of the sequence.  (Stated for a run with
\* one job.)
C26_OutlineCheckpoints ==
    [][\A w \in Workers :
          LET r == wk[w].task.run_id
              from == wk[w].pc
              to == wk'[w].pc
              at(p, s) == runs'[r].progress = p /\ runs'[r].status = s
          IN ( /\ from \in {"o_start", "o_roadmap", "o_gen", "o_save", "o_done", "o_exc"}
               /\ to # from
               /\ r \in DOMAIN runs
               /\ SoleJob(r) ) =>
                CASE from = "o_start" /\ to = "o_roadmap" ->
                        runs[r].status = "queued" /\ at(5, "running")
                  [] from = "o_roadmap" /\ to = "o_gen" ->
                        runs[r].progress = 5 /\ at(20, "running")
                  [] from = "o_gen" /\ to = "o_save" ->
                        runs[r].progress = 20 /\ at(60, "running")
                  [] from = "o_save" /\ to = "o_done" ->
                        runs[r].progress = 60 /\ at(85, "running")
                  [] from = "o_done" /\ to = "ack" ->
                        runs[r].progress = 85 /\ at(100, "succeeded")
                  [] OTHER ->
                        /\ runs'[r].progress = runs[r].progress
                        /\ runs'[r].status # "succeeded"]_vars

C26_Witness ==
    \E w \in Workers :
        /\ wk[w].pc = "ack"
        /\ wk[w].task.type = OUTLINE
        /\ wk[w].ret = "ok"
        /\ SoleJob(wk[w].task.run_id)
        /\ runs[wk[w].task.run_id].progress = 100
        /\ runs[wk[w].task.run_id].status = "succeeded"

\* C27: when the outline handler has succeeded for a roadmap of N weeks, the
\* run is linked to one new course with N modules, one per week, all without
\* content; when the handler ends in failure (it is in its except branch), no
\* course and no module has been created for the run.
\* (Stated for a run with one job.)
C27_OutlineArtifacts ==
    \A w \in Workers :
        LET r == wk[w].task.run_id
            c == runs[r].course_id
        IN ( /\ wk[w].task.type = OUTLINE
             /\ r \in DOMAIN runs
             /\ SoleJob(r) ) =>
              /\ (wk[w].pc = "ack" /\ wk[w].ret = "ok") =>
                    /\ c \in DOMAIN courses
                    /\ c = wk[w].course
                    /\ courses[c].roadmap_id = runs[r].roadmap_id
                    /\ modules[c] = [i \in 1..roadmaps[runs[r].roadmap_id].duration_weeks
                                       |-> "none"]
                    /\ \A r2 \in DOMAIN runs : (r2 # r) => runs[r2].course_id # c
              /\ wk[w].pc = "o_exc" =>
                    /\ c = None
                    /\ wk[w].course = None

\* C28: the step that takes a run from queued to running sets progress 5 and
\* started_at, and after every step every running run has progress >= 5.
C28_RunStart ==
    [][/\ \A r \in DOMAIN runs :
             (runs[r].status = "queued" /\ runs'[r].status = "running") =>
                /\ runs'[r].progress = 5
                /\ runs'[r].started_at
       /\ \A r \in DOMAIN runs' :
             runs'[r].status = "running" => runs'[r].progress >= 5]_vars

\* C29: a step that takes a run to succeeded leaves it with progress 100 and
\* finished_at set; a step that takes a run to failed, or writes a new error
\* to a failed run, leaves it with finished_at set and a non-empty error, and
\* with the progress it had before the step.
C29_FinishWrites ==
    [][\A r \in DOMAIN runs :
          /\ (runs'[r].status = "succeeded" /\ runs[r].status # "succeeded") =>
                /\ runs'[r].progress = 100
                /\ runs'[r].finished_at
          /\ ( /\ runs'[r].status = "failed"
               /\ runs[r].status # "failed" \/ runs'[r].error # runs[r].error ) =>
                /\ runs'[r].finished_at
                /\ runs'[r].error # ""
                /\ runs'[r].progress = runs[r].progress]_vars

C29_Witness ==
    \E w \in Workers :
        /\ wk[w].pc = "except"
        /\ wk[w].task.type = OUTLINE
        /\ runs[wk[w].task.run_id].status = "failed"
        /\ runs[wk[w].task.run_id].progress = 20
        /\ runs[wk[w].task.run_id].error = "Exception"
        /\ runs[wk[w].task.run_id].finished_at

\* The fields update_run takes as optional arguments
UpdateFields == {"status", "progress", "message", "error", "result_json"}

\* The row a call with these arguments at this time is to leave: the fields
\* passed take the values passed, started / finished stamp the time
Expected(run, args, now) ==
    [f \in DOMAIN run |->
        IF f \in UpdateFields /\ args[f] # <<>> THEN args[f][1]
        ELSE IF f = "started_at" /\ args.started THEN now
        ELSE IF f = "finished_at" /\ args.finished THEN now
        ELSE run[f]]

\* The table a call is to leave: only the row of run_id changes, if there is one
ExpectedRows(rs, run_id, args, now) ==
    [r \in DOMAIN rs |-> IF r = run_id THEN Expected(rs[r], args, now) ELSE rs[r]]

\* The two calls pass no argument in common
Disjoint(a, b) ==
    /\ \A f \in UpdateFields : a[f] = <<>> \/ b[f] = <<>>
    /\ ~(a.started /\ b.started)
    /\ ~(a.finished /\ b.finished)

\* The call passes neither started nor finished
Timeless(args) == ~args.started /\ ~args.finished

Unstamped(rs) ==
    [r \in DOMAIN rs |-> [rs[r] EXCEPT !.started_at = None, !.finished_at = None]]

\* C30 as stated: update_run changes exactly what is passed, in the row of
\* run_id only; the same call made twice leaves the table the first call
\* left; two calls that pass disjoint arguments leave the same table in either
\* order.
C30_UpdateRunPartial ==
    (fx.fn = "update_run" /\ fx.done) =>
        /\ fx.res.once = ExpectedRows(fx.arg.rs, fx.arg.run_id, fx.arg.a, 2)
        /\ fx.res.twice = fx.res.once
        /\ Disjoint(fx.arg.a, fx.arg.b) => fx.res.ab = fx.res.ba

\* C30 (amended): update_run changes exactly what is passed, in the row of
\* run_id only, started / finished stamping the time of the call; for calls
\* that pass neither started nor finished the same call made twice leaves what
\* the first call left, and two calls with disjoint arguments leave the same
\* table in either order; when started or finished is passed, the tables differ
\* in started_at / finished_at only, which hold the time of the last call
\* that passed the flag.
C30_PartialUpdate ==
    (fx.fn = "update_run" /\ fx.done) =>
        LET rs == fx.arg.rs
            run_id == fx.arg.run_id
            a == fx.arg.a
            b == fx.arg.b
        IN /\ fx.res.once = ExpectedRows(rs, run_id, a, 2)
           /\ Timeless(a) => fx.res.twice = fx.res.once
           /\ fx.res.twice = ExpectedRows(fx.res.once, run_id, a, 3)
           /\ Unstamped(fx.res.twice) = Unstamped(fx.res.once)
           /\ Disjoint(a, b) =>
                 /\ Unstamped(fx.res.ab) = Unstamped(fx.res.ba)
                 /\ (Timeless(a) /\ Timeless(b)) => fx.res.ab = fx.res.ba

C30_Witness ==
    /\ fx.fn = "update_run" /\ fx.done
    /\ fx.arg.run_id = 2
    /\ fx.arg.a.progress = <<60>> /\ fx.arg.a.status = <<>> /\ Timeless(fx.arg.a)
    /\ fx.arg.b.status = <<"succeeded">> /\ fx.arg.b.progress = <<>> /\ Timeless(fx.arg.b)
    /\ fx.arg.b.error = <<>> /\ fx.arg.a.error = <<"e">>
    /\ fx.res.ab = fx.res.ba
    /\ fx.res.ab[2].progress = 60
    /\ fx.res.ab[2].status = "succeeded"
    /\ fx.res.ab[2].error = "e"
    /\ fx.res.ab[2].started_at = 1
    /\ fx.res.twice = fx.res.once
    /\ fx.res.once[1] = RunRows[1]

\* The message as it was enqueued, but for its attempt
AsEnqueued(h, m) == [m EXCEPT !.attempt = 0] = h.enq[m.task_id]

\* C31: enqueue_job puts the new message, with attempt 0, at the end of
\* pending opposite to the one dequeue takes from, and leaves processing as
\* it is; a requeue puts the held message back with its attempt raised by 1;
\* dequeue hands out the message as it is in pending; and every message in
\* pending, in processing or held by a worker is the message that was
\* enqueued in every field but attempt.
C31_MessageImmutability ==
    [][/\ \A i \in 1..Len(pending') : AsEnqueued(hist', pending'[i])
       /\ \A i \in 1..Len(processing') : AsEnqueued(hist', processing'[i])
       /\ \A w \in Workers :
             wk'[w].pc \notin {"idle", "crashed", "terminated"} =>
                AsEnqueued(hist', wk'[w].task)
       /\ next_task' # next_task =>
             /\ Len(hist'.enq) = next_task
             /\ hist'.enq[next_task].attempt = 0
             /\ hist'.enq[next_task].task_id = next_task
             /\ pending' = <<hist'.enq[next_task]>> \o pending
             /\ processing' = processing
       /\ \A w \in Workers :
             /\ (wk[w].pc = "idle" /\ wk'[w].pc = "picked") =>
                   /\ wk'[w].task = pending[Len(pending)]
                   /\ processing' = <<wk'[w].task>> \o processing
                   /\ pending' = SubSeq(pending, 1, Len(pending) - 1)
             /\ (wk[w].pc = "requeue_lpush" /\ wk'[w].pc = "idle") =>
                   /\ pending' = <<[wk[w].task EXCEPT !.attempt = wk[w].task.attempt + 1]>>
                                    \o pending
                   /\ processing' = processing
             /\ (wk[w].pc = "ack" /\ wk'[w].pc = "idle") =>
                   /\ pending' = pending
                   /\ \A i \in 1..Len(processing') :
                         \E j \in 1..Len(processing) : processing[j] = processing'[i]]_vars

C31_Witness ==
    \E i \in 1..Len(pending) :
        /\ pending[i].attempt = 2
        /\ pending[i].timestamp = pending[i].task_id
        /\ pending[i] = [hist.enq[pending[i].task_id] EXCEPT !.attempt = 2]
        /\ hist.delivered[pending[i].task_id] = 2

\* Message t is in neither list and no worker is working on it
Completed(t) ==
    /\ ~InPending(t)
    /\ ~InProcessing(t)
    /\ \A w \in Workers : ~Holds(w, t)

\* Message t has been handed to a handler by the dispatch
Dispatched(t) ==
    \E w \in Workers :
        /\ Holds(w, t)
        /\ wk[w].pc \notin {"picked", "dispatch"}

\* The dispatch has a handler to call for the message
HasHandler(task) ==
    /\ task.run_id # None
    /\ \/ task.type = OUTLINE
       \/ task.type = MODULES /\ task.course_id # None

\* Message t is in processing and the worker that took it has crashed
Stranded(t) ==
    /\ InProcessing(t)
    /\ ~InPending(t)
    /\ \A w \in Workers : ~Holds(w, t)
    /\ \E w \in Workers : wk[w].pc = "crashed"

InHandler(w, r) ==
    /\ wk[w].pc \in {"o_start", "o_roadmap", "o_gen", "o_save", "o_done", "o_exc",
                     "c_start", "c_begin", "c_loop", "c_gen", "c_ready", "c_finish",
                     "c_exc"}
    /\ wk[w].task.run_id = r

\* The messages of run r in a list, by position
MessagesOf(list, r) == {i \in 1..Len(list) : list[i].run_id = r}

\* C33: for a run with a single enqueued message, at most one worker is
\* inside a handler for the run, and pending and processing together hold at
\* most one message of the run, whatever failures, requeues and crashes
\* have happened.
C33_OnePerRun ==
    \A r \in RunIds :
        SoleJob(r) =>
            /\ Cardinality({w \in Workers : InHandler(w, r)}) <= 1
            /\ Cardinality(MessagesOf(pending, r)) + Cardinality(MessagesOf(processing, r)) <= 1

\* A run's only message is under its handler again after a failure and a
\* requeue, while the other worker is busy with another run's message
C33_Witness ==
    \E r \in RunIds, w \in Workers, v \in Workers :
        /\ SoleJob(r)
        /\ InHandler(w, r)
        /\ wk[w].task.attempt >= 1
        /\ v # w
        /\ Busy(v)
        /\ wk[v].task.run_id \notin {r, None}
        /\ MessagesOf(processing, r) # {}

\* The message cannot be parsed as JSON, or carries no run id
Malformed(task) ==
    \/ task.text # JSON_OBJECT
    \/ task.run_id = None

\* C34: while a worker deals with a dequeued message that does not parse or
\* carries no run id, it writes no run, calls no handler and no generator and
\* pushes nothing onto pending; and when it is done with the message, the
\* message is in neither list.
C34_MalformedDropped ==
    [][\A w \in Workers :
          (Busy(w) /\ Malformed(wk[w].task) /\ wk'[w] # wk[w]) =>
             /\ runs' = runs
             /\ fx' = fx
             /\ eng' = eng
             /\ pending' = pending
             /\ wk'[w].pc \in {"except", "idle"}
             /\ wk'[w].pc = "idle" =>
                   \A i \in 1..Len(processing') :
                       processing'[i].task_id # wk[w].task.task_id]_vars

\* Worker w is inside the content handler
InContentHandler(w) ==
    wk[w].pc \in {"c_start", "c_begin", "c_loop", "c_gen", "c_ready", "c_finish", "c_exc"}

\* The job of worker w names course c and its run is of the user who owns c
OwnersJob(w, c) ==
    /\ wk[w].task.course_id = c
    /\ wk[w].task.run_id \in DOMAIN runs
    /\ runs[wk[w].task.run_id].user_id = courses[c].user_id

\* C35: a step of the content handler changes the content of a module of a
\* course, or the course's status, only if the job names that course and its
\* run belongs to the owner of the course; and the content handler started on a
\* course of another user fails the run with "course not found", returns to
\* the acknowledge and changes no course and no module.
C35_OwnerIsolation ==
    [][/\ \A w \in Workers, c \in DOMAIN courses :
             (/\ InContentHandler(w)
              /\ wk'[w] # wk[w]
              /\ c \in DOMAIN courses'
              /\ modules'[c] # modules[c] \/ courses'[c] # courses[c])
                => OwnersJob(w, c)
       /\ \A w \in Workers :
             LET r == wk[w].task.run_id
                 c == wk[w].task.course_id
             IN (/\ wk[w].pc = "c_start"
                 /\ wk'[w] # wk[w]
                 /\ r \in DOMAIN runs
                 /\ c \in DOMAIN courses
                 /\ courses[c].user_id # runs[r].user_id) =>
                    /\ runs'[r].status = "failed"
                    /\ runs'[r].error = "course not found"
                    /\ runs'[r].finished_at
                    /\ wk'[w].pc = "ack"
                    /\ courses' = courses
                    /\ modules' = modules]_vars

\* A content job of a user's run that names the other user's course has
\* returned "course not found"; the course is as it was
C35_Witness ==
    \E w \in Workers :
        /\ wk[w].pc = "ack"
        /\ wk[w].ret = "course not found"
        /\ wk[w].task.course_id = 2
        /\ courses[2] = [user_id |-> OtherUser, roadmap_id |-> 2, status |-> "draft"]
        /\ modules[2] = [i \in 1..MaxWeeks |-> "none"]
        /\ runs[wk[w].task.run_id].user_id = User
        /\ runs[wk[w].task.run_id].error = "course not found"
====
